---- MODULE Spec2Model ----
(***************************************************************************)
(* GitP4Transfer: replication of a git history into a Perforce depot.      *)
(* The model follows GitP4Transfer.replicate / replicate_commits,          *)
(* GitSource.missingCommits and P4Target.replicateCommit.                  *)
(***************************************************************************)
EXTENDS Integers, Sequences, FiniteSets, TLC

\* ------------------------------------------------------------------ bounds
\* Longest source history (number of commits git rev-list can return).
MaxCommits == 3
\* Largest value tried for --maximum and for change_batch_size (0 = unset).
MaxSetting == 1
\* Number of failures (exceptions of the collaborators, kills) injected in a behaviour.
MaxFailures == 1
\* longest path, in bytes, of the diff lines with one path
MaxPathLen == 2
\* most pieces of a configured description template
MaxFormatLen == 2
\* most commits of a history that getCommitDiffs reads
MaxLogged == 2
\* most calls of readline made at the end of the pipe
MaxEofReads == 2
\* longest path, in characters, that is encoded for the target and decoded
MaxWildcardLen == 3
\* most entries of the diff of a commit that is translated entry by entry
MaxDiffLen == 2
\* most entries of the diff of a commit that is followed through its submit
MaxSubmitDiffLen == 1
\* most entries of the result of a submit
MaxResultLen == 3

\* Commit ids are opaque strings; the k-th commit of the history carries
\* IdPool[k].  The counter of a fresh target reads as the empty string.
IdPool == <<"c1", "c2", "c3", "c4", "c5", "c6">>
Files == {"file1"}

VARIABLES
    source,         \* git history in rev-list --first-parent --reverse order
    checkedOut,     \* commit the work tree (branch p4_exportBranch) is at
    counter,        \* target: value of the p4 counter options.counter_name
    changes,        \* target: submitted changelists, each the source commit id of its description
    depot,          \* target: files existing at head revision
    opened,         \* target: files open in the client workspace
    clientspec,     \* target: client spec, "orig" or "updated"
    options,        \* command line and config options
    deadlinePassed, \* datetime.now() > options.end_datetime
    pc,             \* position of the driver
    finished,       \* replicate(): finished
    num_changes,    \* replicate(): num_changes
    commitIDs,      \* replicate_commits(): commitIDs
    idx,            \* replicate_commits(): position of the for loop in commitIDs
    changesTransferred,              \* replicate_commits(): changesTransferred
    previous_target_change_counter,  \* self.previous_target_change_counter
    filelog,        \* target: per file, the actions of its revisions (p4 filelog), oldest first
    exc,            \* the exception being propagated: its class and the function that raised it
    change,         \* text: the change git diff-tree prints, or the defect of its line
    diffLine,       \* text: the line of git diff-tree
    parsed,         \* text: what parseDiffTreeEntry(entry) returned
    scanned,        \* text: what the loop of getFileChanges did with the line
    described,      \* text: the commit a description is formatted for
    change_description_format,  \* text: options.change_description_format
    description,    \* text: what formatChangeDescription returned
    pipe,           \* history: the lines dtp.stdout delivers
    exitStatus,     \* history: dtp.wait()
    fpos,           \* history: number of lines asked of the pipe
    hpc,            \* history: position in getCommitDiffs
    curLine,        \* history: line
    cont,           \* history: cont
    cur,            \* history: commitID, parents, name, email, desc, fileChanges
    commits,        \* history: commitList and commits, in the order recorded
    translated,     \* translate: the commit replicateCommit is called with
    diffTree,       \* translate: the entries git diff-tree -r -M id^ id prints
    fileChanges,    \* translate: fileChanges
    tpc,            \* translate: position in replicateCommit
    tpos,           \* translate: number of lines of the diff scanned
    issued,         \* translate: the p4 commands issued, in order
    filesToAdd,     \* translate: filesToAdd
    filesToChangeType,     \* translate: filesToChangeType
    filesToDelete,  \* translate: filesToDelete
    filesToChangeExecBit,  \* translate: filesToChangeExecBit, as pairs <<path, mode>>
    iterated,       \* translate: the elements the running for loop over a set has visited
    executable,     \* translate: paths open at the target with an executable file type
    submitResult,   \* translate: result of save_submit
    scanAt,         \* translate: a, the index of the backward scan
    newChangeId,    \* translate: newChangeId
    earlier,        \* translate: the commands an earlier translation of the commit issued
    wildPath,       \* wildcards: a path of the work tree
    isWindows,      \* wildcards: platform.system() == "Windows"
    wpc,            \* wildcards: which conversions have been applied
    encodedPath,    \* wildcards: wildcard_encode(path)
    decodedPath,    \* wildcards: wildcard_decode of the encoded path
    fixedLocalFile, \* wildcards: ChangeRevision.fixedLocalFile of the encoded path
    firstParents,   \* branches: per commit, in order of creation, its first parent or 0
    refTips,        \* branches: the commit each ref of the repository points at
    branchRefs,     \* branches: branchRefs, the configured branches
    branchInfo,     \* branches: per commit its branch, parentBranch and firstOnBranch
    anonBranchInd,  \* branches: self.anonBranchInd
    bpc,            \* branches: position in updateBranchInfo
    bref,           \* branches: position of for b in branchRefs
    bidx,           \* branches: position of the for loop over commit ids
    failures,       \* number of failures injected so far
    result          \* value replicate() returned: 0 or 1, -1 while it has not returned

driverVars == <<source, checkedOut, counter, changes, depot, opened, clientspec,
                options, deadlinePassed, pc, finished, num_changes, commitIDs, idx,
                changesTransferred, previous_target_change_counter, filelog, exc,
                failures, result>>
textVars == <<change, diffLine, parsed, scanned, described, change_description_format, description>>
historyVars == <<pipe, exitStatus, fpos, hpc, curLine, cont, cur, commits>>
translateVars == <<translated, diffTree, fileChanges, tpc, tpos, issued, filesToAdd,
                   filesToChangeType, filesToDelete, filesToChangeExecBit, iterated,
                   executable, submitResult, scanAt, newChangeId, earlier>>
wildcardVars == <<wildPath, isWindows, wpc, encodedPath, decodedPath, fixedLocalFile>>
branchVars == <<firstParents, refTips, branchRefs, branchInfo, anonBranchInd, bpc, bref, bidx>>
sideVars == <<textVars, historyVars, translateVars, wildcardVars, branchVars>>
besidesText == <<driverVars, historyVars, translateVars, wildcardVars, branchVars>>
besidesHistory == <<driverVars, textVars, translateVars, wildcardVars, branchVars>>
driverRest == <<source, checkedOut, changes, depot, opened, clientspec, options,
                deadlinePassed, pc, finished, num_changes, commitIDs, idx,
                changesTransferred, previous_target_change_counter, filelog,
                failures, result>>
besidesTranslate == <<driverRest, textVars, historyVars, wildcardVars, branchVars>>
besidesBranches == <<driverRest, counter, textVars, historyVars, translateVars, wildcardVars>>
besidesWildcard == <<driverVars, textVars, historyVars, translateVars, branchVars>>
vars == <<driverVars, sideVars>>

gitVars == <<source, checkedOut>>
targetVars == <<counter, changes, depot, opened, clientspec, filelog>>
batchVars == <<commitIDs, idx, changesTransferred, previous_target_change_counter>>

\* ------------------------------------------------------------ pure helpers
\* An exception of class cls raised in function at; NoExc when none is
\* being propagated.
Exc(cls, at) == [cls |-> cls, at |-> at]
NoExc == Exc("none", "")

Min(a, b) == IF a < b THEN a ELSE b

\* list.index(x) as a 1-based position; 0 stands for ValueError.
Index(list, x) ==
    IF \E i \in 1..Len(list) : list[i] = x
    THEN CHOOSE i \in 1..Len(list) : list[i] = x /\ \A j \in 1..(i-1) : list[j] # x
    ELSE 0

\* getCommitDiffs: the commit list, i.e. the ids of the history in order.
CommitList(src) == [k \in 1..Len(src) |-> src[k].commitID]

\* getCommitDiffs: the commits dict, here looked up by id.
CommitOf(src, id) == src[Index(CommitList(src), id)]

\* The git tree (set of paths) after the first k commits of a history.
RECURSIVE TreeAfter(_, _)
TreeAfter(src, k) ==
    IF k = 0 THEN {}
    ELSE LET t == TreeAfter(src, k - 1)
             adds == {src[k].fileChanges[i].filename : i \in
                        {j \in 1..Len(src[k].fileChanges) : src[k].fileChanges[j].changeTypes = "A"}}
             dels == {src[k].fileChanges[i].filename : i \in
                        {j \in 1..Len(src[k].fileChanges) : src[k].fileChanges[j].changeTypes = "D"}}
         IN (t \cup adds) \ dels

\* The file-change lists a commit on top of a tree can carry: nothing (an
\* empty commit), or one change that the tree admits.  "X" is git's status for
\* a change it cannot classify; "T" on the first commit stands for the statuses
\* replicateCommit does not implement for a commit without parents.
FileChangeLists(tree) ==
    {<<>>} \cup
    {<<[changeTypes |-> "A", filename |-> f]>> : f \in Files \ tree} \cup
    {<<[changeTypes |-> ty, filename |-> f]>> : ty \in {"M", "D", "X"}, f \in tree}

\* The lists the first commit of a history can carry.
RootFileChangeLists ==
    FileChangeLists({}) \cup {<<[changeTypes |-> "T", filename |-> f]>> : f \in Files}

\* The commit git records as number k with the given changes: the root has no
\* parents, every other commit has the previous one as first parent.
NewCommit(src, fcs) ==
    [commitID |-> IdPool[Len(src) + 1],
     parents |-> IF Len(src) = 0 THEN <<>> ELSE <<src[Len(src)].commitID>>,
     fileChanges |-> fcs]


\* ------------------------------------------------- GitSource.missingCommits
\* Mutant: a counter that names no commit of the list leaves nothing to do.
SkipReplicatedUnknownIsDone(commitList, ctr) ==
    LET ind == Index(commitList, ctr)
    IN IF ind # 0 THEN SubSeq(commitList, ind + 1, Len(commitList)) ELSE <<>>

\* Mutant: the slice keeps the commit the counter names (commitList[ind:]).
SkipReplicatedOffByOne(commitList, ctr) ==
    LET ind == Index(commitList, ctr)
    IN IF ind # 0 THEN SubSeq(commitList, ind, Len(commitList)) ELSE commitList

\* try: ind = commitList.index(counter); commitList = commitList[ind+1:]
\* except ValueError: pass
SkipReplicated(commitList, ctr) ==
    LET ind == Index(commitList, ctr)
    IN IF ind # 0 THEN SubSeq(commitList, ind + 1, Len(commitList)) ELSE commitList

\* maxChanges as missingCommits computes it from change_batch_size and
\* --maximum (0 stands for an unset or zero option, both falsy).
MaxChanges(change_batch_size, maximum) ==
    LET fromBatch == IF change_batch_size # 0 THEN change_batch_size ELSE 0
    IN IF maximum # 0 /\ maximum < fromBatch THEN maximum ELSE fromBatch

\* if maxChanges > 0: commitList = commitList[:maxChanges]
Truncate(commitList, maxChanges) ==
    IF maxChanges > 0
    THEN SubSeq(commitList, 1, Min(maxChanges, Len(commitList)))
    ELSE commitList

\* Mutant: the history is walked without --reverse, newest commit first.
MissingCommitsNewestFirst(src, ctr, opts) ==
    LET list == SkipReplicated(CommitList(src), ctr)
    IN Truncate([k \in 1..Len(list) |-> list[Len(list) + 1 - k]],
                MaxChanges(opts.change_batch_size, opts.maximum))

MissingCommits(src, ctr, opts) ==
    Truncate(SkipReplicated(CommitList(src), ctr),
             MaxChanges(opts.change_batch_size, opts.maximum))

\* ------------------------------------------------ P4Target.replicateCommit
\* A command list raises when it reaches a raise statement; the commands
\* before it have been issued.
Raises(cmds) == \E i \in 1..Len(cmds) : cmds[i].op = "raise"

UpToRaise(cmds) ==
    IF Raises(cmds)
    THEN SubSeq(cmds, 1, (CHOOSE i \in 1..Len(cmds) :
                            cmds[i].op = "raise" /\ \A j \in 1..(i-1) : cmds[j].op # "raise") - 1)
    ELSE cmds

\* The fallback of lines 1023-1025 calls getFileChanges, which reads
\* commit.parents[0]: an IndexError when the commit has no parents.
NeedsFallback(commit) ==
    \/ commit.fileChanges = <<>>
    \/ \E i \in 1..Len(commit.fileChanges) : commit.fileChanges[i].changeTypes = "MM"

FallbackRaises(commit) == NeedsFallback(commit) /\ commit.parents = <<>>

\* Mutant: the chain of tests ends in a plain else, which reconciles deletes.
RootOpsLenient(fcs) ==
    [i \in 1..Len(fcs) |->
        [op |-> CASE fcs[i].changeTypes = "A" -> "rec -af"
                  [] fcs[i].changeTypes = "M" -> "rec -e"
                  [] OTHER -> "rec -d",
         file |-> fcs[i].filename]]

\* Operations of a commit without parents: one reconcile per file change.
RootOps(fcs) ==
    [i \in 1..Len(fcs) |->
        [op |-> CASE fcs[i].changeTypes = "A" -> "rec -af"
                  [] fcs[i].changeTypes = "M" -> "rec -e"
                  [] fcs[i].changeTypes = "D" -> "rec -d"
                  [] OTHER -> "raise",
         file |-> fcs[i].filename]]

\* SelectSeq with the operation attached.
OpsOf(fcs, ty, op) ==
    LET sel == SelectSeq(fcs, LAMBDA fc : fc.changeTypes = ty)
    IN [i \in 1..Len(sel) |-> [op |-> op, file |-> sel[i].filename]]

\* A path is staged for add (delete) when its last A or D line is an A (a D).
LastOf(fcs, f) ==
    LET hits == {i \in 1..Len(fcs) : fcs[i].filename = f /\ fcs[i].changeTypes \in {"A", "D"}}
    IN IF hits = {} THEN "none"
       ELSE fcs[CHOOSE i \in hits : \A j \in hits : j <= i].changeTypes

RECURSIVE RevertDelete(_)
RevertDelete(fcs) ==
    IF fcs = <<>> THEN <<>>
    ELSE <<[op |-> "revert", file |-> Head(fcs).filename],
           [op |-> "delete", file |-> Head(fcs).filename]>> \o RevertDelete(Tail(fcs))

\* The commands the scan of the diff issues itself: p4 edit for an M line, and
\* the raise for a modifier that is none of M, A, D, C, R, T.
ScanOps(fcs) ==
    LET sel == SelectSeq(fcs, LAMBDA fc : fc.changeTypes \notin {"A", "D", "C", "R", "T"})
    IN [i \in 1..Len(sel) |->
          [op |-> IF sel[i].changeTypes = "M" THEN "edit" ELSE "raise",
           file |-> sel[i].filename]]

\* Mutant: the files staged for delete are never deleted.
ParentOpsNoDelete(fcs) ==
    LET firstOf(i) == \A j \in 1..(i-1) : fcs[j].filename # fcs[i].filename
                                          \/ fcs[j].changeTypes # fcs[i].changeTypes
        staged(ty) == SelectSeq([i \in 1..Len(fcs) |->
                           IF fcs[i].changeTypes = ty /\ firstOf(i)
                              /\ LastOf(fcs, fcs[i].filename) = ty
                           THEN fcs[i] ELSE [changeTypes |-> "-", filename |-> ""]],
                         LAMBDA fc : fc.changeTypes = ty)
    IN IF Raises(ScanOps(fcs)) THEN ScanOps(fcs)
       ELSE ScanOps(fcs) \o OpsOf(fcs, "T", "edit -t") \o OpsOf(staged("A"), "A", "add")

\* Operations of a commit with a parent: edits are issued during the scan of
\* the diff, then the type changes, the staged adds, and revert and delete of
\* each staged delete; nothing after the scan when the scan raises.
ParentOps(fcs) ==
    LET firstOf(i) == \A j \in 1..(i-1) : fcs[j].filename # fcs[i].filename
                                          \/ fcs[j].changeTypes # fcs[i].changeTypes
        staged(ty) == SelectSeq([i \in 1..Len(fcs) |->
                           IF fcs[i].changeTypes = ty /\ firstOf(i)
                              /\ LastOf(fcs, fcs[i].filename) = ty
                           THEN fcs[i] ELSE [changeTypes |-> "-", filename |-> ""]],
                         LAMBDA fc : fc.changeTypes = ty)
    IN IF Raises(ScanOps(fcs)) THEN ScanOps(fcs)
       ELSE ScanOps(fcs) \o OpsOf(fcs, "T", "edit -t") \o OpsOf(staged("A"), "A", "add")
               \o RevertDelete(staged("D"))

StagedOps(commit) ==
    IF commit.parents = <<>> THEN RootOps(commit.fileChanges) ELSE ParentOps(commit.fileChanges)

\* The exception replicateCommit raises by itself for a commit, "none" when
\* it raises none: IndexError from commit.parents[0] in the fallback,
\* P4TLogicException for an action not implemented for a commit without
\* parents, Exception for an unknown modifier.
RaisedBy(commit) ==
    IF FallbackRaises(commit) THEN "IndexError"
    ELSE IF ~Raises(StagedOps(commit)) THEN "none"
    ELSE IF commit.parents = <<>> THEN "P4TLogicException"
    ELSE "Exception"

\* ------------------------------------------------- the target's file staging
IsOpen(o, f) == \E r \in o : r.file = f

\* What the Perforce server does with one staging command issued for commit id:
\* a file is opened for add only if the depot does not have it, for edit or
\* delete only if the depot has it; a file already open stays as it is.
ApplyOp(o, dep, cmd, id) ==
    CASE cmd.op \in {"add", "rec -af"} ->
            IF cmd.file \notin dep /\ ~IsOpen(o, cmd.file)
            THEN o \cup {[file |-> cmd.file, action |-> "add", commit |-> id]} ELSE o
      [] cmd.op \in {"edit", "edit -t", "rec -e"} ->
            IF cmd.file \in dep /\ ~IsOpen(o, cmd.file)
            THEN o \cup {[file |-> cmd.file, action |-> "edit", commit |-> id]} ELSE o
      [] cmd.op \in {"delete", "rec -d"} ->
            IF cmd.file \in dep /\ ~IsOpen(o, cmd.file)
            THEN o \cup {[file |-> cmd.file, action |-> "delete", commit |-> id]} ELSE o
      [] cmd.op = "revert" -> {r \in o : r.file # cmd.file}
      [] OTHER -> o

RECURSIVE ApplyOps(_, _, _, _)
ApplyOps(o, dep, cmds, id) ==
    IF cmds = <<>> THEN o
    ELSE ApplyOps(ApplyOp(o, dep, Head(cmds), id), dep, Tail(cmds), id)

\* p4 filelog after a submit of everything open: one more revision, with the
\* action it was opened for, for each open file.
Filelog(log, o) ==
    [f \in DOMAIN log |->
        IF IsOpen(o, f)
        THEN Append(log[f], (CHOOSE r \in o : r.file = f).action)
        ELSE log[f]]

\* The depot after a submit of everything open.
Submitted(dep, o) ==
    (dep \cup {r.file : r \in {x \in o : x.action = "add"}})
        \ {r.file : r \in {x \in o : x.action = "delete"}}


\* ------------------------------------------------------------ diff-tree lines
\* Text is a sequence of one-character strings.  A byte of a path is the
\* character itself for ASCII and its three octal digits for a byte >= 0x80.
Digit == {"0", "1", "2", "3", "4", "5", "6", "7", "8", "9"}
Lower == {"a", "b", "c", "d", "e", "f", "g", "h", "i", "j", "k", "l", "m",
          "n", "o", "p", "q", "r", "s", "t", "u", "v", "w", "x", "y", "z"}
Upper == {"A", "B", "C", "D", "E", "F", "G", "H", "I", "J", "K", "L", "M",
          "N", "O", "P", "Q", "R", "S", "T", "U", "V", "W", "X", "Y", "Z"}
\* \w of the pattern
Word == Digit \cup Lower \cup Upper \cup {"_"}
\* the characters str.split(None) splits at
Whitespace == {" ", "\t", "\n", "\r"}

\* Python's None and a present value of an optional field.
None == <<>>
Some(x) == <<x>>

\* Character at position i, "" past the end of the text.
At(s, i) == IF i \in 1..Len(s) THEN s[i] ELSE ""

\* First position at or after p whose character is outside the set.
RECURSIVE RunEnd(_, _, _)
RunEnd(s, p, set) ==
    IF p <= Len(s) /\ s[p] \in set THEN RunEnd(s, p + 1, set) ELSE p

\* First position at or after p whose character is in the set, Len(s) + 1 if none.
RECURSIVE Find(_, _, _)
Find(s, p, set) ==
    IF p <= Len(s) /\ s[p] \notin set THEN Find(s, p + 1, set) ELSE p

\* The bytes a character cannot stand for, each named by its three octal
\* digits: those >= 0x80 and the control characters of PathQuoting._unescape.
Octal == {"0", "1", "2", "3", "4", "5", "6", "7"}
Bytes(d1, d2, d3) == {a \o b \o c : a \in d1, b \in d2, c \in d3}
HighBytes == Bytes({"2", "3"}, Octal, Octal)
OctalDigits(b) ==
    CHOOSE d \in {"2", "3"} \X Octal \X Octal : d[1] \o d[2] \o d[3] = b

\* UTF-8: continuation bytes 0x80..0xBF, the lead bytes of sequences of two,
\* three and four bytes, and the second bytes a lead byte admits.
Continuation == Bytes({"2"}, Octal, Octal)
Lead2 == Bytes({"3"}, {"0"}, Octal \ {"0", "1"}) \cup Bytes({"3"}, {"1", "2", "3"}, Octal)
Lead3 == Bytes({"3"}, {"4", "5"}, Octal)
Lead4 == Bytes({"3"}, {"6"}, {"0", "1", "2", "3", "4"})
Second(lead) ==
    CASE lead = "340" -> Bytes({"2"}, {"4", "5", "6", "7"}, Octal)
      [] lead = "355" -> Bytes({"2"}, {"0", "1", "2", "3"}, Octal)
      [] lead = "360" -> Bytes({"2"}, {"2", "3", "4", "5", "6", "7"}, Octal)
      [] lead = "364" -> Bytes({"2"}, {"0", "1"}, Octal)
      [] OTHER -> Continuation

\* Number of bytes of the UTF-8 sequence that starts the bytes b: 1 for
\* ASCII, 0 if b starts with no complete sequence.
SequenceLen(b) ==
    LET n == IF b[1] \in Lead2 THEN 2
             ELSE IF b[1] \in Lead3 THEN 3
             ELSE IF b[1] \in Lead4 THEN 4
             ELSE 0
    IN  IF b[1] \notin HighBytes THEN 1
        ELSE IF /\ n > 0
                /\ Len(b) >= n
                /\ b[2] \in Second(b[1])
                /\ \A i \in 3..n : b[i] \in Continuation
             THEN n
             ELSE 0

\* The character a UTF-8 sequence encodes, named by the bytes of the sequence.
RECURSIVE Character(_)
Character(b) == IF Len(b) = 1 THEN b[1] ELSE b[1] \o Character(Tail(b))

\* PathQuoting._unescape
Unescape ==
    [c \in {"a", "b", "f", "n", "r", "t", "v", "\"", "\\"} |->
        CASE c = "a" -> "007"
          [] c = "b" -> "010"
          [] c = "f" -> "\f"
          [] c = "n" -> "\n"
          [] c = "r" -> "\r"
          [] c = "t" -> "\t"
          [] c = "v" -> "013"
          [] OTHER -> c]

\* PathQuoting._escape: how git writes one byte of a path inside quotes.
Escape(b) ==
    IF b \in HighBytes THEN <<"\\">> \o OctalDigits(b)
    ELSE IF \E c \in DOMAIN Unescape : Unescape[c] = b
         THEN <<"\\", CHOOSE c \in DOMAIN Unescape : Unescape[c] = b>>
         ELSE <<b>>

RECURSIVE EscapeAll(_)
EscapeAll(path) ==
    IF path = <<>> THEN <<>> ELSE Escape(path[1]) \o EscapeAll(Tail(path))

\* PathQuoting._special_chars: git quotes a path holding one of these bytes.
SpecialChar(b) == Len(Escape(b)) > 1

\* A path as git diff-tree prints it (core.quotePath at its default).
Quote(path) ==
    IF \E i \in 1..Len(path) : SpecialChar(path[i])
    THEN <<"\"">> \o EscapeAll(path) \o <<"\"">>
    ELSE path

\* One line of git diff-tree -r -M for a commit with one parent:
\* :<mode> <mode> <sha1> <sha1> <status>[<score>] TAB <path> [TAB <path>] LF
Serialize(fc) ==
    <<":">> \o fc.src_mode \o <<" ">> \o fc.dst_mode \o <<" ">>
        \o fc.src_sha1 \o <<" ">> \o fc.dst_sha1 \o <<" ">>
        \o <<fc.status>> \o (IF fc.status_score = None THEN <<>> ELSE fc.status_score[1])
        \o <<"\t">> \o Quote(fc.src)
        \o (IF fc.dst = None THEN <<>> ELSE <<"\t">> \o Quote(fc.dst[1]))
        \o <<"\n">>

\* What a callee hands back: the name of the exception it raised or of the
\* way it returned, and the value returned.
Outcome(how, value) == [result |-> how, value |-> value]

\* PathQuoting.unescape_sequence over the text between the quotes: the
\* exception re.sub stops with, "" if there is none.
RECURSIVE UnescapeError(_)
UnescapeError(s) ==
    IF s = <<>> THEN ""
    ELSE IF s[1] = "\\" /\ At(s, 2) \in Lower \cup {"\"", "\\"}
         THEN IF s[2] \in DOMAIN Unescape
              THEN UnescapeError(SubSeq(s, 3, Len(s)))
              ELSE "KeyError"
    ELSE IF s[1] = "\\" /\ {At(s, 2), At(s, 3), At(s, 4)} \subseteq Digit
         THEN IF {s[2], s[3], s[4]} \cap {"8", "9"} # {} \/ s[2] \notin {"0", "1", "2", "3"}
              THEN "ValueError"
              ELSE UnescapeError(SubSeq(s, 5, Len(s)))
    ELSE UnescapeError(Tail(s))

\* PathQuoting._unescape_re.sub(PathQuoting.unescape_sequence, ...): the bytes
\* the text between the quotes stands for.
\* An octal escape keeps its digits as the name of the byte; git writes one
\* only for a byte that no character of a line stands for.
RECURSIVE UnescapeAll(_)
UnescapeAll(s) ==
    IF s = <<>> THEN <<>>
    ELSE IF s[1] = "\\" /\ At(s, 2) \in DOMAIN Unescape
         THEN <<Unescape[s[2]]>> \o UnescapeAll(SubSeq(s, 3, Len(s)))
    ELSE IF s[1] = "\\" /\ {At(s, 2), At(s, 3), At(s, 4)} \subseteq Digit
         THEN <<s[2] \o s[3] \o s[4]>> \o UnescapeAll(SubSeq(s, 5, Len(s)))
    ELSE <<s[1]>> \o UnescapeAll(Tail(s))

\* bytes.decode(): UTF-8 is strict, a byte >= 0x80 outside a complete
\* sequence is a UnicodeDecodeError.
RECURSIVE DecodeError(_)
DecodeError(b) ==
    IF b = <<>> THEN ""
    ELSE IF SequenceLen(b) = 0 THEN "UnicodeDecodeError"
    ELSE DecodeError(SubSeq(b, SequenceLen(b) + 1, Len(b)))

RECURSIVE Decode(_)
Decode(b) ==
    IF b = <<>> THEN <<>>
    ELSE <<Character(SubSeq(b, 1, SequenceLen(b)))>>
             \o Decode(SubSeq(b, SequenceLen(b) + 1, Len(b)))

\* decode_text_stream(s)
decode_text_stream(s) ==
    IF DecodeError(s) # "" THEN Outcome(DecodeError(s), <<>>) ELSE Outcome("", Decode(s))

\* str.encode() of a character: git writes a line in ASCII, and of the other
\* characters those of two bytes are covered.
EncodeCharacter(c) ==
    IF \E p \in Lead2 \X Continuation : p[1] \o p[2] = c
    THEN CHOOSE p \in Lead2 \X Continuation : p[1] \o p[2] = c
    ELSE <<c>>

RECURSIVE Encode(_)
Encode(s) ==
    IF s = <<>> THEN <<>> ELSE EncodeCharacter(s[1]) \o Encode(Tail(s))

\* PathQuoting.dequote(quoted_string) for a string; parseDiffTreeEntry hands
\* None through without calling it on anything.
Dequote(quoted_string) ==
    IF quoted_string # <<>> /\ quoted_string[1] = "\""
    THEN IF quoted_string[Len(quoted_string)] # "\""
         THEN Outcome("AssertionError", <<>>)
         ELSE LET encoded == Encode(quoted_string)
                  inner == SubSeq(encoded, 2, Len(encoded) - 1)
              IN  IF UnescapeError(inner) # ""
                  THEN Outcome(UnescapeError(inner), <<>>)
                  ELSE decode_text_stream(UnescapeAll(inner))
    ELSE Outcome("", quoted_string)

\* The dictionary of parseDiffTreeEntry with nothing in it.
NoFields ==
    [src_mode |-> <<>>, dst_mode |-> <<>>, src_sha1 |-> <<>>, dst_sha1 |-> <<>>,
     status |-> "", status_score |-> None, src |-> <<>>, dst |-> None]

\* Where group 7 of _diff_tree_pattern, the lazy (.*?), ends: at the first
\* tab, at the end of the text or before a newline that ends the text.  The
\* dot matches no newline, 0 says the pattern does not match.
RECURSIVE SrcEnd(_, _)
SrcEnd(entry, p) ==
    IF p > Len(entry) \/ entry[p] = "\t" THEN p
    ELSE IF entry[p] = "\n" THEN (IF p = Len(entry) THEN p ELSE 0)
    ELSE SrcEnd(entry, p + 1)

\* parseDiffTreeEntry(entry): re.match anchors the pattern at the start of
\* the entry only.
ParseDiffTreeEntry(entry) ==
    LET e1 == RunEnd(entry, 2, Digit)
        e2 == RunEnd(entry, e1 + 1, Digit)
        e3 == RunEnd(entry, e2 + 1, Word)
        e4 == RunEnd(entry, e3 + 1, Word)
        e5 == RunEnd(entry, e4 + 2, Digit)
        p  == SrcEnd(entry, e5 + 1)
        q  == Find(entry, p + 1, {"\n"})
        matched ==
            /\ At(entry, 1) = ":"
            /\ e1 > 2 /\ At(entry, e1) = " "
            /\ e2 > e1 + 1 /\ At(entry, e2) = " "
            /\ e3 > e2 + 1 /\ At(entry, e3) = " "
            /\ e4 > e3 + 1 /\ At(entry, e4) = " "
            /\ At(entry, e4 + 1) \in Upper
            /\ At(entry, e5) = "\t"
            /\ p # 0
        src == Dequote(SubSeq(entry, e5 + 1, p - 1))
        dst == IF At(entry, p) = "\t"
               THEN Dequote(SubSeq(entry, p + 1, q - 1))
               ELSE Outcome("", <<>>)
    IN  IF ~matched THEN Outcome("None", NoFields)
        ELSE IF src.result # "" THEN Outcome(src.result, NoFields)
        ELSE IF dst.result # "" THEN Outcome(dst.result, NoFields)
        ELSE Outcome("dict",
                 [src_mode |-> SubSeq(entry, 2, e1 - 1),
                  dst_mode |-> SubSeq(entry, e1 + 1, e2 - 1),
                  src_sha1 |-> SubSeq(entry, e2 + 1, e3 - 1),
                  dst_sha1 |-> SubSeq(entry, e3 + 1, e4 - 1),
                  status |-> entry[e4 + 1],
                  status_score |-> IF e5 > e4 + 2
                                   THEN Some(SubSeq(entry, e4 + 2, e5 - 1))
                                   ELSE None,
                  src |-> src.value,
                  dst |-> IF At(entry, p) = "\t" THEN Some(dst.value) ELSE None])

\* str.split(None, maxsplit) from position p on
RECURSIVE Split(_, _, _)
Split(s, p, maxsplit) ==
    LET b == RunEnd(s, p, Whitespace)
        e == Find(s, b, Whitespace)
    IN  IF b > Len(s) THEN <<>>
        ELSE IF maxsplit = 0 THEN <<SubSeq(s, b, Len(s))>>
        ELSE <<SubSeq(s, b, e - 1)>> \o Split(s, e, maxsplit - 1)

\* str.split('\t')
RECURSIVE SplitTab(_)
SplitTab(s) ==
    LET t == Find(s, 1, {"\t"})
    IN  IF t > Len(s) THEN <<s>>
        ELSE <<SubSeq(s, 1, t - 1)>> \o SplitTab(SubSeq(s, t + 1, Len(s)))

\* A GitFileChanges with nothing in it.
NoFileChanges == [modes |-> <<>>, shas |-> <<>>, changeTypes |-> <<>>, filenames |-> <<>>]

\* The body of the for loop of getFileChanges for one line of the pipe, n = 2.
GetFileChangesLine(line) ==
    IF At(line, 1) # ":" THEN Outcome("continue", NoFileChanges)
    ELSE LET relevant == SubSeq(line, 2, Len(line) - 1)
             modes == Split(relevant, 1, 2)
             shas == IF Len(modes) > 2 THEN Split(modes[3], 1, 2) ELSE <<>>
             names == IF Len(shas) > 2 THEN SplitTab(shas[3]) ELSE <<>>
         IN  IF Len(modes) < 3 \/ Len(shas) < 3
             THEN Outcome("IndexError", NoFileChanges)
             ELSE Outcome("append",
                      [modes |-> SubSeq(modes, 1, 2), shas |-> SubSeq(shas, 1, 2),
                       changeTypes |-> names[1], filenames |-> Tail(names)])

\* ------------------------------------------- P4Target.formatChangeDescription
\* A template is a sequence of pieces: literal text, the two characters \n,
\* $$, or a $name.
\* str.replace("\\n", "\n")
ReplaceNewlines(format) ==
    [i \in DOMAIN format |-> IF format[i] = "\\n" THEN "\n" ELSE format[i]]

\* string.Template(format).safe_substitute(**kwargs)
SafeSubstitute(template, kwargs) ==
    [i \in DOMAIN template |->
        IF template[i] = "$$" THEN "$"
        ELSE IF template[i] \in DOMAIN kwargs THEN kwargs[template[i]]
        ELSE template[i]]

\* formatChangeDescription(**kwargs) with options.change_description_format
FormatChangeDescription(format, kwargs) ==
    SafeSubstitute(ReplaceNewlines(format), kwargs)

\* The keyword arguments replicateCommit calls formatChangeDescription with.
Kwargs(c) ==
    [k \in {"$sourceDescription", "$sourceChange", "$sourcePort", "$sourceUser"} |->
        CASE k = "$sourceDescription" -> c.description
          [] k = "$sourceChange" -> c.commitID
          [] k = "$sourcePort" -> "git_repo"
          [] OTHER -> c.name]

\* DEFAULT_CONFIG: change_description_format
DefaultFormat ==
    <<"$sourceDescription", "\\n", "\\n", "Transferred from git://",
      "$sourceRepo", "@", "$sourceChange">>

\* The pieces a configured template is made of.
FormatPieces ==
    {"$sourceDescription", "$sourceChange", "$sourceRepo", "$sourceUser",
     "$sourcePort", "$other", "$$", "\\n", "Transferred from git://", "@"}

Formats ==
    {DefaultFormat} \cup UNION {[1..k -> FormatPieces] : k \in 1..MaxFormatLen}

\* The commits whose description is formatted: id, author and message.
DescribedCommits ==
    [commitID : {"c1"}, name : {"alice"}, description : {"fix", "$sourceUser\\n"}]

\* ------------------------------------------------------- lines of a diff
Mode644 == <<"1", "0", "0", "6", "4", "4">>
Mode0 == <<"0", "0", "0", "0", "0", "0">>
Sha0 == <<"0", "0", "0", "0", "0", "0", "0">>
Sha1 == <<"e", "6", "9", "d", "e", "2", "9">>
Sha2 == <<"5", "7", "1", "6", "c", "a", "5">>

\* What git diff-tree reports of one file: the source side is absent for an
\* added file, the destination side for a deleted one.
FileChange(status, status_score, src, dst) ==
    [src_mode |-> IF status = "A" THEN Mode0 ELSE Mode644,
     dst_mode |-> IF status = "D" THEN Mode0 ELSE Mode644,
     src_sha1 |-> IF status = "A" THEN Sha0 ELSE Sha1,
     dst_sha1 |-> IF status = "D" THEN Sha0 ELSE IF status \in {"R", "C"} THEN Sha1 ELSE Sha2,
     status |-> status,
     status_score |-> status_score,
     src |-> src,
     dst |-> dst]

\* The bytes paths are made of: plain ones, ones git escapes, and bytes
\* >= 0x80 that are UTF-8 only as the pair 0xC3 0xA9.
PathBytes == {"a", "t", " ", "\t", "\"", "\\", "303", "251"}

Paths(n) == UNION {[1..k -> PathBytes] : k \in 1..n}

\* The changes of a commit with one parent: one path, or two for a rename or
\* a copy with its similarity score.
FileChanges ==
    {FileChange(st, None, p, None) : st \in {"A", "M", "D", "T"}, p \in Paths(MaxPathLen)}
    \cup {FileChange("R", Some(<<"1", "0", "0">>), p, Some(q)) : p \in Paths(1), q \in Paths(1)}
    \cup {FileChange("C", Some(<<"0", "7", "5">>), p, Some(q)) : p \in Paths(1), q \in Paths(1)}

\* Lines that are not of the form
\* :<mode> <mode> <hash> <hash> <status>[<score>] TAB <path> [TAB <path>]
Defects ==
    {"nocolon", "blank", "truncated", "badmode", "missingsha", "lowerstatus",
     "nopath", "threepaths", "unclosedquote"}

Defect(kind) ==
    LET line == Serialize(FileChange("M", None, <<"a">>, None))
        tab == Find(line, 1, {"\t"})
    IN  CASE kind = "nocolon" -> Tail(line)
          [] kind = "blank" -> <<"\n">>
          [] kind = "truncated" -> <<":">> \o Mode644 \o <<" ">> \o Mode644 \o <<"\n">>
          [] kind = "badmode" -> [line EXCEPT ![2] = "x"]
          [] kind = "missingsha" ->
                <<":">> \o Mode644 \o <<" ">> \o Mode644 \o <<" ">> \o Sha1
                    \o SubSeq(line, tab - 2, Len(line))
          [] kind = "lowerstatus" -> [line EXCEPT ![tab - 1] = "m"]
          [] kind = "nopath" -> SubSeq(line, 1, tab - 1) \o <<"\n">>
          [] kind = "threepaths" ->
                SubSeq(line, 1, Len(line) - 1) \o <<"\t", "b", "\t", "c", "\n">>
          [] OTHER -> SubSeq(line, 1, tab) \o <<"\"", "a", "\n">>

\* The line a pipe of git diff-tree delivers: a change as git prints it, or a
\* line with a defect.
Changes ==
    {[kind |-> "valid", fc |-> fc] : fc \in FileChanges}
    \cup {[kind |-> k, fc |-> FileChange("M", None, <<"a">>, None)] : k \in Defects}

LineOf(ch) == IF ch.kind = "valid" THEN Serialize(ch.fc) ELSE Defect(ch.kind)

NoChange == [kind |-> "none", fc |-> FileChange("M", None, <<>>, None)]
NoCommit == [commitID |-> "", name |-> "", description |-> ""]
NoTranslated == [commitID |-> "", parents |-> <<>>, fileChanges |-> <<>>]
Unparsed == Outcome("", NoFields)
Unscanned == Outcome("", NoFileChanges)

\* ------------------------------------------------------------------ options
Options ==
    [maximum : 0..MaxSetting,            \* --maximum, 0 = not given
     change_batch_size : 0..MaxSetting,  \* config change_batch_size, 0 = unset
     repeat : BOOLEAN,                   \* --repeat
     stoponerror : BOOLEAN,              \* --stoponerror
     notransfer : BOOLEAN,               \* --notransfer
     end_datetime : BOOLEAN]             \* --end-datetime given

\* endDatetimeExceeded()
endDatetimeExceeded == options.end_datetime /\ deadlinePassed

\* State after GitP4Transfer.__init__: nothing replicated yet, an empty source
\* repository, a target without changes and without the counter.
DriverInit ==
    /\ source = <<>>
    /\ checkedOut = ""
    /\ counter = ""
    /\ changes = <<>>
    /\ depot = {}
    /\ opened = {}
    /\ clientspec = "orig"
    /\ options \in Options
    /\ deadlinePassed = FALSE
    /\ pc = "construct"
    /\ finished = FALSE
    /\ num_changes = 0
    /\ commitIDs = <<>>
    /\ idx = 0
    /\ changesTransferred = 0
    /\ previous_target_change_counter = 0
    /\ filelog = [f \in Files |-> <<>>]
    /\ exc = NoExc
    /\ failures = 0
    /\ result = -1

\* Nothing is parsed or formatted while the driver is followed.
TextIdle ==
    /\ change = NoChange
    /\ diffLine = <<>>
    /\ parsed = Unparsed
    /\ scanned = Unscanned
    /\ described = NoCommit
    /\ change_description_format = <<>>
    /\ description = <<>>

\* No history is extracted while the driver is followed.
HistoryIdle ==
    /\ pipe = <<>>
    /\ exitStatus = 0
    /\ fpos = 0
    /\ hpc = "idle"
    /\ curLine = ""
    /\ cont = FALSE
    /\ cur = [commitID |-> "", parents |-> <<>>, name |-> "", email |-> "",
              desc |-> <<>>, fileChanges |-> <<>>]
    /\ commits = <<>>

\* No commit is translated line by line while the driver is followed.
TranslateIdle ==
    /\ translated = NoTranslated
    /\ diffTree = <<>>
    /\ fileChanges = <<>>
    /\ tpc = "idle"
    /\ tpos = 0
    /\ issued = <<>>
    /\ filesToAdd = {}
    /\ filesToChangeType = {}
    /\ filesToDelete = {}
    /\ filesToChangeExecBit = {}
    /\ iterated = {}
    /\ executable = {}
    /\ submitResult = <<>>
    /\ scanAt = 0
    /\ newChangeId = 0
    /\ earlier = None

\* No path is encoded or decoded while the driver is followed.
WildcardIdle ==
    /\ wildPath = <<>>
    /\ isWindows = FALSE
    /\ wpc = "idle"
    /\ encodedPath = <<>>
    /\ decodedPath = <<>>
    /\ fixedLocalFile = <<>>

\* No branch is labelled while the driver is followed: the call of
\* updateBranchInfo in missingCommits is commented out.
BranchIdle ==
    /\ firstParents = <<>>
    /\ refTips = <<>>
    /\ branchRefs = <<>>
    /\ branchInfo = <<>>
    /\ anonBranchInd = 0
    /\ bpc = "idle"
    /\ bref = 0
    /\ bidx = 0

Init == DriverInit /\ TextIdle /\ HistoryIdle /\ TranslateIdle /\ WildcardIdle /\ BranchIdle

\* ---------------------------------------------------------- the environment
\* A developer commits to the source repository.  The driver reads the
\* history only in missingCommits at the start of a batch, so a commit made at
\* any other moment is observed exactly as one made right before the next batch.
\* The driver never gets past a commit replicateCommit raises for by itself,
\* so the history is followed up to the first such commit.
GitCommit ==
    /\ Len(source) < MaxCommits
    /\ pc = "loop"
    /\ source # <<>> => RaisedBy(source[Len(source)]) = "none"
    /\ \E fcs \in (IF source = <<>> THEN RootFileChangeLists
                   ELSE FileChangeLists(TreeAfter(source, Len(source)))) :
          source' = Append(source, NewCommit(source, fcs))
    /\ UNCHANGED <<checkedOut, targetVars, options, deadlinePassed, pc, finished,
                   num_changes, batchVars, result>>
    /\ UNCHANGED failures
    /\ UNCHANGED <<exc, sideVars>>

\* The wall clock passes --end-datetime.  The driver reads the clock only in
\* endDatetimeExceeded, called at the head of the for loop and after a batch,
\* so the moment is observed exactly as one right before a batch or, when it
\* falls inside the application of a commit, as one right after the checkout.
Tick ==
    /\ options.end_datetime
    /\ pc \in {"loop", "replicate"}
    /\ ~deadlinePassed
    /\ deadlinePassed' = TRUE
    /\ UNCHANGED <<gitVars, targetVars, options, pc, finished, num_changes,
                   batchVars, result>>
    /\ UNCHANGED failures
    /\ UNCHANGED <<exc, sideVars>>

\* ------------------------------------------------------- replicate(): setup
\* writeLogHeader, setupReplicate: readConfig, connect, createClientWorkspace.
SetupReplicate ==
    /\ pc = "construct"
    /\ clientspec' = "updated"
    /\ pc' = "loop"
    /\ finished' = FALSE
    /\ num_changes' = 0
    /\ UNCHANGED <<gitVars, counter, changes, depot, opened, options,
                   deadlinePassed, batchVars, result>>
    /\ UNCHANGED failures
    /\ UNCHANGED <<exc, sideVars>>
    /\ UNCHANGED filelog

\* setupReplicate raises: log, return 1.
SetupFails ==
    /\ pc = "construct"
    /\ pc' = "exit"
    /\ result' = 1
    /\ UNCHANGED <<gitVars, targetVars, options, deadlinePassed, finished,
                   num_changes, batchVars>>
    /\ failures < MaxFailures
    /\ failures' = failures + 1
    /\ UNCHANGED <<exc, sideVars>>

\* ------------------------------------------------------- replicate_commits
\* Mutant: revertOpenedFiles and the for loop are reached with an empty list.
BeginBatchAlwaysReverts ==
    /\ pc = "loop"
    /\ clientspec' = "updated"
    /\ commitIDs' = MissingCommits(source, counter, options)
    /\ changesTransferred' = 0
    /\ idx' = 1
    /\ IF options.notransfer
       THEN /\ num_changes' = 0
            /\ pc' = "afterBatch"
            /\ UNCHANGED previous_target_change_counter
       ELSE /\ previous_target_change_counter' =
                   IF Len(changes) > 0 THEN Len(changes) + 1
                   ELSE previous_target_change_counter
            /\ pc' = "revert"
            /\ UNCHANGED num_changes
    /\ UNCHANGED <<gitVars, counter, changes, depot, opened, options,
                   deadlinePassed, finished, result>>
    /\ UNCHANGED failures
    /\ UNCHANGED <<exc, sideVars>>
    /\ UNCHANGED filelog

\* Mutant: the batch goes to its first commit without revertOpenedFiles.
BeginBatchSkipsRevert ==
    /\ pc = "loop"
    /\ clientspec' = "updated"
    /\ commitIDs' = MissingCommits(source, counter, options)
    /\ changesTransferred' = 0
    /\ idx' = 1
    /\ IF options.notransfer
       THEN /\ num_changes' = 0
            /\ pc' = "afterBatch"
            /\ UNCHANGED previous_target_change_counter
       ELSE IF Len(commitIDs') > 0
       THEN /\ previous_target_change_counter' =
                   IF Len(changes) > 0 THEN Len(changes) + 1
                   ELSE previous_target_change_counter
            /\ pc' = "for"
            /\ UNCHANGED num_changes
       ELSE /\ num_changes' = 0
            /\ pc' = "afterBatch"
            /\ UNCHANGED previous_target_change_counter
    /\ UNCHANGED <<gitVars, counter, changes, depot, opened, options,
                   deadlinePassed, finished, result>>
    /\ UNCHANGED failures
    /\ UNCHANGED <<exc, sideVars>>
    /\ UNCHANGED filelog

\* Top of "while not finished": readConfig, then replicate_commits up to the
\* for loop: connect, createClientWorkspace, getCounter, missingCommits, and,
\* with commits to transfer, save_previous_target_change_counter.
BeginBatch ==
    /\ pc = "loop"
    /\ clientspec' = "updated"
    /\ commitIDs' = MissingCommits(source, counter, options)
    /\ changesTransferred' = 0
    /\ idx' = 1
    /\ IF options.notransfer
       THEN /\ num_changes' = 0
            /\ pc' = "afterBatch"
            /\ UNCHANGED previous_target_change_counter
       ELSE IF Len(commitIDs') > 0
       THEN /\ previous_target_change_counter' =
                   IF Len(changes) > 0 THEN Len(changes) + 1
                   ELSE previous_target_change_counter
            /\ pc' = "revert"
            /\ UNCHANGED num_changes
       ELSE /\ num_changes' = 0
            /\ pc' = "afterBatch"
            /\ UNCHANGED previous_target_change_counter
    /\ UNCHANGED <<gitVars, counter, changes, depot, opened, options,
                   deadlinePassed, finished, result>>
    /\ UNCHANGED failures
    /\ UNCHANGED <<exc, sideVars>>
    /\ UNCHANGED filelog

\* connect, createClientWorkspace, getCounter or the history walk raises.
BeginBatchRaises ==
    /\ pc = "loop"
    /\ pc' = "except"
    /\ UNCHANGED <<gitVars, targetVars, options, deadlinePassed, finished,
                   num_changes, batchVars, result>>
    /\ failures < MaxFailures
    /\ failures' = failures + 1
    /\ exc' = Exc("P4Exception", "replicate_commits")
    /\ UNCHANGED sideVars

\* readConfig raises P4TConfigException: log, notify, return 1.
ConfigError ==
    /\ pc = "loop"
    /\ pc' = "exit"
    /\ result' = 1
    /\ UNCHANGED <<gitVars, targetVars, options, deadlinePassed, finished,
                   num_changes, batchVars>>
    /\ failures < MaxFailures
    /\ failures' = failures + 1
    /\ UNCHANGED <<exc, sideVars>>

\* revertOpenedFiles: p4 revert -k //client/... at exception level RAISE_NONE,
\* so a failing revert is swallowed and leaves the files open.
RevertOpenedFiles ==
    /\ pc = "revert"
    /\ opened' \in {{}, opened}
    /\ pc' = "for"
    /\ UNCHANGED <<gitVars, counter, changes, depot, clientspec, options,
                   deadlinePassed, finished, num_changes, batchVars, result>>
    /\ UNCHANGED failures
    /\ UNCHANGED <<exc, sideVars>>
    /\ UNCHANGED filelog

\* Mutant: the for loop does not look at the deadline.
ForLoopIgnoresDeadline ==
    /\ pc = "for"
    /\ IF idx > Len(commitIDs)
       THEN /\ num_changes' = changesTransferred
            /\ pc' = "afterBatch"
       ELSE /\ pc' = "checkout"
            /\ UNCHANGED num_changes
    /\ UNCHANGED <<gitVars, targetVars, options, deadlinePassed, finished,
                   batchVars, result>>
    /\ UNCHANGED failures
    /\ UNCHANGED <<exc, sideVars>>

\* "for id in commitIDs": loop exhausted (disconnect, return), deadline
\* exceeded (return early), or go on with commitIDs[idx].
ForLoop ==
    /\ pc = "for"
    /\ IF idx > Len(commitIDs) \/ endDatetimeExceeded
       THEN /\ num_changes' = changesTransferred
            /\ pc' = "afterBatch"
       ELSE /\ pc' = "checkout"
            /\ UNCHANGED num_changes
    /\ UNCHANGED <<gitVars, targetVars, options, deadlinePassed, finished,
                   batchVars, result>>
    /\ UNCHANGED failures
    /\ UNCHANGED <<exc, sideVars>>

\* Mutant: the cursor is advanced speculatively, at checkout.
CheckoutCommitSpeculative ==
    /\ pc = "checkout"
    /\ checkedOut' = commitIDs[idx]
    /\ counter' = commitIDs[idx]
    /\ pc' = "replicate"
    /\ UNCHANGED <<source, changes, depot, opened, clientspec, options,
                   deadlinePassed, finished, num_changes, batchVars, result>>
    /\ UNCHANGED failures
    /\ UNCHANGED <<exc, sideVars>>
    /\ UNCHANGED filelog

\* source.checkoutCommit(id): git switch -C p4_exportBranch id
CheckoutCommit ==
    /\ pc = "checkout"
    /\ checkedOut' = commitIDs[idx]
    /\ pc' = "replicate"
    /\ UNCHANGED <<source, targetVars, options, deadlinePassed, finished,
                   num_changes, batchVars, result>>
    /\ UNCHANGED failures
    /\ UNCHANGED <<exc, sideVars>>

CheckoutRaises ==
    /\ pc = "checkout"
    /\ pc' = "except"
    /\ UNCHANGED <<gitVars, targetVars, options, deadlinePassed, finished,
                   num_changes, batchVars, result>>
    /\ failures < MaxFailures
    /\ failures' = failures + 1
    /\ exc' = Exc("CalledProcessError", "checkoutCommit")
    /\ UNCHANGED sideVars

\* replicateCommit up to and including p4 opened: sync -k, the fallback diff,
\* and every staging command of the commit.
StageCommit ==
    /\ pc = "replicate"
    /\ LET commit == CommitOf(source, commitIDs[idx])
       IN /\ ~FallbackRaises(commit)
          /\ ~Raises(StagedOps(commit))
          /\ opened' = ApplyOps(opened, depot, StagedOps(commit), commit.commitID)
    /\ pc' = "staged"
    /\ UNCHANGED <<gitVars, counter, changes, depot, clientspec, options,
                   deadlinePassed, finished, num_changes, batchVars, result>>
    /\ UNCHANGED failures
    /\ UNCHANGED <<exc, sideVars>>
    /\ UNCHANGED filelog

\* replicateCommit raises while staging: the commands issued before the
\* failing one have taken effect.  Either a p4 command fails, or the code
\* reaches one of its own raise statements.
StageRaises ==
    /\ pc = "replicate"
    /\ LET commit == CommitOf(source, commitIDs[idx])
           cmds == IF FallbackRaises(commit) THEN <<>> ELSE UpToRaise(StagedOps(commit))
       IN \/ /\ RaisedBy(commit) # "none"
             /\ opened' = ApplyOps(opened, depot, cmds, commit.commitID)
             /\ exc' = Exc(RaisedBy(commit), IF FallbackRaises(commit) THEN "getFileChanges" ELSE "replicateCommit")
             /\ UNCHANGED sideVars
             /\ UNCHANGED failures
          \/ /\ ~FallbackRaises(commit)
             /\ \E n \in 0..Len(cmds) :
                   opened' = ApplyOps(opened, depot, SubSeq(cmds, 1, n), commit.commitID)
             /\ exc' = Exc("P4Exception", "replicateCommit")
             /\ UNCHANGED sideVars
             /\ failures < MaxFailures
             /\ failures' = failures + 1
    /\ pc' = "except"
    /\ UNCHANGED <<gitVars, counter, changes, depot, clientspec, options,
                   deadlinePassed, finished, num_changes, batchVars, result>>
    /\ UNCHANGED filelog

\* lenOpenedFiles = 0: replicateCommit returns without a submit.
NothingOpened ==
    /\ pc = "staged"
    /\ opened = {}
    /\ pc' = "setCounter"
    /\ UNCHANGED <<gitVars, targetVars, options, deadlinePassed, finished,
                   num_changes, batchVars, result>>
    /\ UNCHANGED failures
    /\ UNCHANGED <<exc, sideVars>>

\* fetch_change, save_submit: everything open in the workspace is submitted
\* as one changelist whose description names the commit.
Submit ==
    /\ pc = "staged"
    /\ opened # {}
    /\ changes' = Append(changes, commitIDs[idx])
    /\ depot' = Submitted(depot, opened)
    /\ filelog' = Filelog(filelog, opened)
    /\ opened' = {}
    /\ pc' = "submitted"
    /\ UNCHANGED <<gitVars, counter, clientspec, options, deadlinePassed,
                   finished, num_changes, batchVars, result>>
    /\ UNCHANGED failures
    /\ UNCHANGED <<exc, sideVars>>

\* fetch_change or save_submit raises P4Exception: files stay open.
SubmitRaises ==
    /\ pc = "staged"
    /\ opened # {}
    /\ pc' = "except"
    /\ UNCHANGED <<gitVars, targetVars, options, deadlinePassed, finished,
                   num_changes, batchVars, result>>
    /\ failures < MaxFailures
    /\ failures' = failures + 1
    /\ exc' = Exc("P4Exception", "replicateCommit")
    /\ UNCHANGED sideVars

\* save_submit returns a result without 'submittedChange': the backward scan
\* runs off the list with an IndexError.  Whether the change was created is
\* not known.
SubmitUnconfirmed ==
    /\ pc = "staged"
    /\ opened # {}
    /\ \/ /\ changes' = Append(changes, commitIDs[idx])
          /\ depot' = Submitted(depot, opened)
          /\ filelog' = Filelog(filelog, opened)
          /\ opened' = {}
       \/ UNCHANGED <<changes, depot, filelog, opened>>
    /\ pc' = "except"
    /\ exc' = Exc("IndexError", "replicateCommit")
    /\ UNCHANGED sideVars
    /\ UNCHANGED <<gitVars, counter, clientspec, options, deadlinePassed,
                   finished, num_changes, batchVars, result>>
    /\ failures < MaxFailures
    /\ failures' = failures + 1

\* updateChange: re-describe the submitted change (superuser).
UpdateChange ==
    /\ pc = "submitted"
    /\ pc' = "setCounter"
    /\ UNCHANGED <<gitVars, targetVars, options, deadlinePassed, finished,
                   num_changes, batchVars, result>>
    /\ UNCHANGED failures
    /\ UNCHANGED <<exc, sideVars>>

UpdateChangeRaises ==
    /\ pc = "submitted"
    /\ pc' = "except"
    /\ UNCHANGED <<gitVars, targetVars, options, deadlinePassed, finished,
                   num_changes, batchVars, result>>
    /\ failures < MaxFailures
    /\ failures' = failures + 1
    /\ exc' = Exc("P4Exception", "updateChange")
    /\ UNCHANGED sideVars

\* Mutant: the counter is set to the last id of the batch's list.
SetCounterLastOfBatch ==
    /\ pc = "setCounter"
    /\ counter' = commitIDs[Len(commitIDs)]
    /\ changesTransferred' = changesTransferred + 1
    /\ idx' = idx + 1
    /\ pc' = "for"
    /\ UNCHANGED <<gitVars, changes, depot, opened, clientspec, options,
                   deadlinePassed, finished, num_changes, commitIDs,
                   previous_target_change_counter, result>>
    /\ UNCHANGED failures
    /\ UNCHANGED <<exc, sideVars>>
    /\ UNCHANGED filelog

\* Mutant: the counter is written once, after the last commit of the batch.
SetCounterBatched ==
    /\ pc = "setCounter"
    /\ counter' = IF idx = Len(commitIDs) THEN commitIDs[idx] ELSE counter
    /\ changesTransferred' = changesTransferred + 1
    /\ idx' = idx + 1
    /\ pc' = "for"
    /\ UNCHANGED <<gitVars, changes, depot, opened, clientspec, options,
                   deadlinePassed, finished, num_changes, commitIDs,
                   previous_target_change_counter, result>>
    /\ UNCHANGED failures
    /\ UNCHANGED <<exc, sideVars>>
    /\ UNCHANGED filelog

\* target.setCounter(id); changesTransferred += 1; next id.
SetCounter ==
    /\ pc = "setCounter"
    /\ counter' = commitIDs[idx]
    /\ changesTransferred' = changesTransferred + 1
    /\ idx' = idx + 1
    /\ pc' = "for"
    /\ UNCHANGED <<gitVars, changes, depot, opened, clientspec, options,
                   deadlinePassed, finished, num_changes, commitIDs,
                   previous_target_change_counter, result>>
    /\ UNCHANGED failures
    /\ UNCHANGED <<exc, sideVars>>
    /\ UNCHANGED filelog

SetCounterRaises ==
    /\ pc = "setCounter"
    /\ pc' = "except"
    /\ UNCHANGED <<gitVars, targetVars, options, deadlinePassed, finished,
                   num_changes, batchVars, result>>
    /\ failures < MaxFailures
    /\ failures' = failures + 1
    /\ exc' = Exc("P4Exception", "setCounter")
    /\ UNCHANGED sideVars


\* ------------------------------------------------ replicate(): after a batch
\* Mutant: a full batch is treated like any other batch.
AfterBatchNoBatchRule ==
    /\ pc = "afterBatch"
    /\ LET fin == finished \/ options.notransfer
       IN IF ~options.repeat
          THEN /\ finished' = TRUE
               /\ pc' = "exit"
               /\ result' = 0
          ELSE /\ finished' = (fin \/ endDatetimeExceeded)
               /\ pc' = "pollSleep"
               /\ UNCHANGED result
    /\ UNCHANGED <<gitVars, targetVars, options, deadlinePassed, num_changes,
                   previous_target_change_counter>>
    /\ UNCHANGED failures
    /\ commitIDs' = <<>>
    /\ idx' = 0
    /\ changesTransferred' = 0
    /\ UNCHANGED <<exc, sideVars>>

\* The statements of the try block that follow replicate_commits(), whose
\* locals are gone.
AfterBatch ==
    /\ pc = "afterBatch"
    /\ LET fin == finished \/ options.notransfer
       IN IF options.change_batch_size # 0 /\ num_changes >= options.change_batch_size
          THEN \* a full batch: rotate the log and go round again at once
               /\ finished' = fin
               /\ pc' = IF fin THEN "exit" ELSE "loop"
               /\ result' = IF fin THEN 0 ELSE result
          ELSE IF ~options.repeat
          THEN /\ finished' = TRUE
               /\ pc' = "exit"
               /\ result' = 0
          ELSE /\ finished' = (fin \/ endDatetimeExceeded)
               /\ pc' = "pollSleep"
               /\ UNCHANGED result
    /\ UNCHANGED <<gitVars, targetVars, options, deadlinePassed, num_changes,
                   previous_target_change_counter>>
    /\ UNCHANGED failures
    /\ commitIDs' = <<>>
    /\ idx' = 0
    /\ changesTransferred' = 0
    /\ UNCHANGED <<exc, sideVars>>

\* time.sleep(poll_interval * 60), then the loop test.
PollSleep ==
    /\ pc = "pollSleep"
    /\ pc' = IF finished THEN "exit" ELSE "loop"
    /\ result' = IF finished THEN 0 ELSE result
    /\ UNCHANGED <<gitVars, targetVars, options, deadlinePassed, finished,
                   num_changes, batchVars>>
    /\ UNCHANGED failures
    /\ UNCHANGED <<exc, sideVars>>

\* The exception classes that derive from P4TException.
IsP4TException(cls) == cls \in {"P4TException", "P4TConfigException"}

\* Mutant: --stoponerror is not looked at.
HandleExceptionNeverStops ==
    /\ pc = "except"
    /\ IF IsP4TException(exc.cls)
       THEN pc' = "exit" /\ result' = 1
       ELSE pc' = "errorSleep" /\ UNCHANGED result
    /\ exc' = NoExc
    /\ UNCHANGED sideVars
    /\ UNCHANGED <<gitVars, targetVars, options, deadlinePassed, finished,
                   num_changes, previous_target_change_counter>>
    /\ UNCHANGED failures
    /\ commitIDs' = <<>>
    /\ idx' = 0
    /\ changesTransferred' = 0

\* The except clauses of the loop: "except P4TException" returns 1; "except
\* Exception" returns 1 with --stoponerror and sleeps on error otherwise.  The
\* frame of replicate_commits has been unwound.
HandleException ==
    /\ pc = "except"
    /\ IF IsP4TException(exc.cls) \/ options.stoponerror
       THEN pc' = "exit" /\ result' = 1
       ELSE pc' = "errorSleep" /\ UNCHANGED result
    /\ exc' = NoExc
    /\ UNCHANGED sideVars
    /\ UNCHANGED <<gitVars, targetVars, options, deadlinePassed, finished,
                   num_changes, previous_target_change_counter>>
    /\ UNCHANGED failures
    /\ commitIDs' = <<>>
    /\ idx' = 0
    /\ changesTransferred' = 0

\* Mutant: without --repeat the loop ends after the sleep on error.
ErrorSleepOnceWithoutRepeat ==
    /\ pc = "errorSleep"
    /\ pc' = IF finished \/ ~options.repeat THEN "exit" ELSE "loop"
    /\ result' = IF finished \/ ~options.repeat THEN 0 ELSE result
    /\ UNCHANGED <<gitVars, targetVars, options, deadlinePassed, finished,
                   num_changes, batchVars>>
    /\ UNCHANGED failures
    /\ UNCHANGED <<exc, sideVars>>

\* time.sleep(sleep_on_error_interval * 60), then the loop test.
ErrorSleep ==
    /\ pc = "errorSleep"
    /\ pc' = IF finished THEN "exit" ELSE "loop"
    /\ result' = IF finished THEN 0 ELSE result
    /\ UNCHANGED <<gitVars, targetVars, options, deadlinePassed, finished,
                   num_changes, batchVars>>
    /\ UNCHANGED failures
    /\ UNCHANGED <<exc, sideVars>>

Next ==
    \/ GitCommit
    \/ Tick
    \/ SetupReplicate
    \/ SetupFails
    \/ BeginBatch
    \/ BeginBatchRaises
    \/ ConfigError
    \/ RevertOpenedFiles
    \/ ForLoop
    \/ CheckoutCommit
    \/ CheckoutRaises
    \/ StageCommit
    \/ StageRaises
    \/ NothingOpened
    \/ Submit
    \/ SubmitRaises
    \/ SubmitUnconfirmed
    \/ UpdateChange
    \/ UpdateChangeRaises
    \/ SetCounter
    \/ SetCounterRaises
    \/ AfterBatch
    \/ PollSleep
    \/ HandleException
    \/ ErrorSleep

\* One invocation of replicate().
Spec == Init /\ [][Next]_vars

\* ------------------------------------------------------- process restarts
\* The process is killed at any point of a run: what it held in memory is
\* gone, the work tree and the target stay as they are.
Crash ==
    /\ pc \notin {"construct", "exit"}
    /\ pc' = "exit"
    /\ finished' = FALSE
    /\ num_changes' = 0
    /\ commitIDs' = <<>>
    /\ idx' = 0
    /\ changesTransferred' = 0
    /\ previous_target_change_counter' = 0
    /\ UNCHANGED <<gitVars, targetVars, options, deadlinePassed, result>>
    /\ failures < MaxFailures
    /\ failures' = failures + 1
    /\ exc' = NoExc
    /\ UNCHANGED sideVars

\* The script is started again with the same options: a new GitP4Transfer
\* object against the same source repository and the same target.
Restart ==
    /\ pc = "exit"
    /\ pc' = "construct"
    /\ finished' = FALSE
    /\ num_changes' = 0
    /\ commitIDs' = <<>>
    /\ idx' = 0
    /\ changesTransferred' = 0
    /\ previous_target_change_counter' = 0
    /\ result' = -1
    /\ UNCHANGED <<gitVars, targetVars, options, deadlinePassed>>
    /\ UNCHANGED failures
    /\ UNCHANGED <<exc, sideVars>>

NextRestart == Next \/ Crash \/ Restart

\* Any number of invocations, each ended by a return or by a kill.
SpecRestart == Init /\ [][NextRestart]_vars

\* ------------------------------------------- the functions on text, one call
\* git diff-tree prints one line, or the configuration holds a template and
\* a commit is about to be submitted.
InitText ==
    /\ DriverInit
    /\ options = [maximum |-> 0, change_batch_size |-> 0, repeat |-> FALSE,
                  stoponerror |-> FALSE, notransfer |-> FALSE, end_datetime |-> FALSE]
    /\ HistoryIdle
    /\ TranslateIdle
    /\ WildcardIdle
    /\ BranchIdle
    /\ parsed = Unparsed
    /\ scanned = Unscanned
    /\ description = <<>>
    /\ \/ /\ change \in Changes
          /\ diffLine = LineOf(change)
          /\ described = NoCommit
          /\ change_description_format = <<>>
       \/ /\ change = NoChange
          /\ diffLine = <<>>
          /\ described \in DescribedCommits
          /\ change_description_format \in Formats

\* replicateCommit: diff = parseDiffTreeEntry(line)
ReplicateCommitParses ==
    /\ diffLine # <<>>
    /\ parsed = Unparsed
    /\ parsed' = ParseDiffTreeEntry(diffLine)
    /\ UNCHANGED <<change, diffLine, scanned, described, change_description_format, description>>
    /\ UNCHANGED besidesText

\* getFileChanges: one turn of for line in f
GetFileChangesReads ==
    /\ diffLine # <<>>
    /\ scanned = Unscanned
    /\ scanned' = GetFileChangesLine(diffLine)
    /\ UNCHANGED <<change, diffLine, parsed, described, change_description_format, description>>
    /\ UNCHANGED besidesText

\* replicateCommit: description = self.formatChangeDescription(...)
ReplicateCommitDescribes ==
    /\ change_description_format # <<>>
    /\ description = <<>>
    /\ description' = FormatChangeDescription(change_description_format, Kwargs(described))
    /\ UNCHANGED <<change, diffLine, parsed, scanned, described, change_description_format>>
    /\ UNCHANGED besidesText

NextText ==
    \/ ReplicateCommitParses
    \/ GetFileChangesReads
    \/ ReplicateCommitDescribes

\* One call of each function on each input.
SpecText == InitText /\ [][NextText]_vars

\* ---------------------------------------------------- GitInfo.getCommitDiffs
\* A line of the pipe is a string without its newline; "\n" is a blank line
\* and "" is what readline returns at the end of the pipe.
EndOfDesc == "__END_OF_DESC__"
DiffLines == {":A file1", ":M file1"}

\* str.rstrip() of a line
Rstrip(l) == IF l = "\n" THEN "" ELSE l

\* str.split() of the line of parents, which names at most one parent here
SplitParents(l) == IF Rstrip(l) = "" THEN <<>> ELSE <<l>>

\* What git rev-list | git diff-tree --stdin --always --root --format=... prints
\* for one commit: id, parents, committer, e-mail, message, the terminator,
\* the date, and a blank line with the raw diff lines if the commit changes
\* files.
CommitLines(c) ==
    <<c.commitID, IF c.parents = <<>> THEN "\n" ELSE c.parents[1], c.name, c.email>>
        \o c.desc \o <<EndOfDesc, "2024-01-01 00:00:00 +0000">>
        \o (IF c.fileChanges = <<>> THEN <<>> ELSE <<"\n">> \o c.fileChanges)

\* The commits of a history of k commits on the first-parent line.
LoggedCommits(k) ==
    [commitID : {IdPool[k]},
     parents : {IF k = 1 THEN <<>> ELSE <<IdPool[k - 1]>>},
     name : {"alice"},
     email : {"alice@example.com"},
     desc : {<<"fix">>, <<"fix", "\n", "more">>},
     fileChanges : {<<>>, <<":A file1">>, <<":A file1", ":M file1">>}]

RECURSIVE Logs(_)
Logs(k) ==
    IF k = 0 THEN {<<>>}
    ELSE Logs(k - 1) \cup
         {Append(h, c) : h \in {g \in Logs(k - 1) : Len(g) = k - 1}, c \in LoggedCommits(k)}

RECURSIVE StreamOf(_)
StreamOf(h) == IF h = <<>> THEN <<>> ELSE CommitLines(Head(h)) \o StreamOf(Tail(h))

\* What the pipe delivers: the output for a history, or a part of it when
\* the pipeline stops early.
Pipes ==
    UNION {{SubSeq(StreamOf(h), 1, n) : n \in 0..Len(StreamOf(h))} : h \in Logs(MaxLogged)}

\* f.readline() as call number n on the pipe
Readline(n) == IF n <= Len(pipe) THEN pipe[n] ELSE ""

NoGitCommit ==
    [commitID |-> "", parents |-> <<>>, name |-> "", email |-> "", desc |-> <<>>,
     fileChanges |-> <<>>]

\* getCommitDiffs is called on a pipe whose process ends with some status.
InitHistory ==
    /\ DriverInit
    /\ options = [maximum |-> 0, change_batch_size |-> 0, repeat |-> FALSE,
                  stoponerror |-> FALSE, notransfer |-> FALSE, end_datetime |-> FALSE]
    /\ TextIdle
    /\ TranslateIdle
    /\ WildcardIdle
    /\ BranchIdle
    /\ pipe \in Pipes
    /\ exitStatus \in {0, 1}
    /\ fpos = 0
    /\ hpc = "start"
    /\ curLine = ""
    /\ cont = FALSE
    /\ cur = NoGitCommit
    /\ commits = <<>>

\* lines 515-522: the first line; an empty one returns the empty lists
ReadFirstLine ==
    /\ hpc = "start"
    /\ fpos' = fpos + 1
    /\ curLine' = Readline(fpos + 1)
    /\ cont' = (Readline(fpos + 1) # "")
    /\ hpc' = IF Readline(fpos + 1) = "" THEN "returned" ELSE "header"
    /\ UNCHANGED <<pipe, exitStatus, cur, commits>>
    /\ UNCHANGED besidesHistory

\* lines 525-530: commit id, parents, committer and e-mail
ReadHeader ==
    /\ hpc = "header"
    /\ cur' = [commitID |-> Rstrip(curLine),
               parents |-> SplitParents(Readline(fpos + 1)),
               name |-> Rstrip(Readline(fpos + 2)),
               email |-> Rstrip(Readline(fpos + 3)),
               desc |-> <<>>,
               fileChanges |-> <<>>]
    /\ fpos' = fpos + 3
    /\ hpc' = "desc"
    /\ UNCHANGED <<pipe, exitStatus, curLine, cont, commits>>
    /\ UNCHANGED besidesHistory

\* lines 531-536: one turn of while in_desc.  readline returns "" at the end
\* of the pipe, which is neither the terminator nor a line to keep.
ReadDescription ==
    /\ hpc = "desc"
    /\ fpos < Len(pipe) + MaxEofReads
    /\ fpos' = fpos + 1
    /\ curLine' = Rstrip(Readline(fpos + 1))
    /\ IF Rstrip(Readline(fpos + 1)) = EndOfDesc
       THEN hpc' = "date" /\ cur' = cur
       ELSE /\ hpc' = "desc"
            /\ cur' = IF Rstrip(Readline(fpos + 1)) # ""
                      THEN [cur EXCEPT !.desc = Append(@, Readline(fpos + 1))]
                      ELSE cur
    /\ UNCHANGED <<pipe, exitStatus, cont, commits>>
    /\ UNCHANGED besidesHistory

\* lines 537-552: the date and the line after it, which is nothing at the
\* end of the input, blank before file changes, or the id of the next commit
ReadDate ==
    /\ hpc = "date"
    /\ fpos' = fpos + 2
    /\ curLine' = Rstrip(Readline(fpos + 2))
    /\ IF Readline(fpos + 2) # "" /\ Rstrip(Readline(fpos + 2)) = ""
       THEN hpc' = "diffs" /\ cont' = FALSE
       ELSE hpc' = "store" /\ cont' = (Readline(fpos + 2) # "")
    /\ UNCHANGED <<pipe, exitStatus, cur, commits>>
    /\ UNCHANGED besidesHistory

\* lines 553-568: one turn of for line in f
ReadFileChange ==
    /\ hpc = "diffs"
    /\ IF fpos >= Len(pipe)
       THEN /\ hpc' = "store"
            /\ UNCHANGED <<fpos, curLine, cont, cur>>
       ELSE /\ fpos' = fpos + 1
            /\ curLine' = Readline(fpos + 1)
            /\ IF Readline(fpos + 1) \notin DiffLines
               THEN hpc' = "store" /\ cont' = TRUE /\ cur' = cur
               ELSE /\ hpc' = "diffs"
                    /\ cont' = cont
                    /\ cur' = [cur EXCEPT !.fileChanges = Append(@, Readline(fpos + 1))]
    /\ UNCHANGED <<pipe, exitStatus, commits>>
    /\ UNCHANGED besidesHistory

\* Mutant: the commit is put in front of the ones before it.
StoreCommitInFront ==
    /\ hpc = "store"
    /\ commits' = <<cur>> \o commits
    /\ hpc' = IF cont THEN "header" ELSE "close"
    /\ UNCHANGED <<pipe, exitStatus, fpos, curLine, cont, cur>>
    /\ UNCHANGED besidesHistory

\* lines 570-573: the commit is recorded
StoreCommit ==
    /\ hpc = "store"
    /\ commits' = Append(commits, cur)
    /\ hpc' = IF cont THEN "header" ELSE "close"
    /\ UNCHANGED <<pipe, exitStatus, fpos, curLine, cont, cur>>
    /\ UNCHANGED besidesHistory

\* lines 576-579: SystemExit if the pipeline failed
CloseStream ==
    /\ hpc = "close"
    /\ hpc' = IF exitStatus # 0 THEN "raised" ELSE "returned"
    /\ UNCHANGED <<pipe, exitStatus, fpos, curLine, cont, cur, commits>>
    /\ UNCHANGED besidesHistory

NextHistory ==
    \/ ReadFirstLine
    \/ ReadHeader
    \/ ReadDescription
    \/ ReadDate
    \/ ReadFileChange
    \/ StoreCommit
    \/ CloseStream

\* One call of getCommitDiffs.
SpecHistory == InitHistory /\ [][NextHistory]_vars


\* ------------------------------------------------ wildcards in file names
\* str.replace(old, new): every occurrence of old, found from the left and
\* not overlapping an earlier one, becomes new.
RECURSIVE Replace(_, _, _)
Replace(text, old, new) ==
    IF Len(text) < Len(old) THEN text
    ELSE IF SubSeq(text, 1, Len(old)) = old
         THEN new \o Replace(SubSeq(text, Len(old) + 1, Len(text)), old, new)
         ELSE <<text[1]>> \o Replace(Tail(text), old, new)

\* Mutant: %25 is decoded first, so the % it yields starts new escapes.
wildcard_decode_percent_first(path, windows) ==
    LET percent == Replace(path, <<"%", "2", "5">>, <<"%">>)
        star == IF ~windows THEN Replace(percent, <<"%", "2", "A">>, <<"*">>) ELSE percent
    IN  Replace(Replace(star, <<"%", "2", "3">>, <<"#">>), <<"%", "4", "0">>, <<"@">>)

\* wildcard_decode(path): %2A only where the platform is not Windows, then
\* %23 and %40, and %25 last.
wildcard_decode(path, windows) ==
    LET star == IF ~windows THEN Replace(path, <<"%", "2", "A">>, <<"*">>) ELSE path
    IN  Replace(Replace(Replace(star, <<"%", "2", "3">>, <<"#">>),
                        <<"%", "4", "0">>, <<"@">>),
                <<"%", "2", "5">>, <<"%">>)

\* wildcard_encode(path): % first, then *, # and @.
wildcard_encode(path) ==
    Replace(Replace(Replace(Replace(path, <<"%">>, <<"%", "2", "5">>),
                            <<"*">>, <<"%", "2", "A">>),
                    <<"#">>, <<"%", "2", "3">>),
            <<"@">>, <<"%", "4", "0">>)

\* wildcard_present(path): re.search("[*#@%]", path)
wildcard_present(path) == \E i \in 1..Len(path) : path[i] \in {"*", "#", "@", "%"}

\* os.sep
Sep(windows) == IF windows THEN <<"\\">> ELSE <<"/">>

\* ChangeRevision.setLocalFile: the value of fixedLocalFile.
SetLocalFile(localFile, windows) ==
    Replace(Replace(Replace(Replace(Replace(localFile, <<"%", "4", "0">>, <<"@">>),
                                    <<"%", "2", "3">>, <<"#">>),
                            <<"%", "2", "A">>, <<"*">>),
                    <<"%", "2", "5">>, <<"%">>),
            <<"/">>, Sep(windows))

\* The characters of the paths: the four the target reserves, the ones its
\* escapes are written with, a plain one and the separator of directories.
WildcardChars == {"%", "*", "#", "@", "2", "5", "A", "3", "4", "0", "a", "/"}

WildPaths(n) == UNION {[1..k -> WildcardChars] : k \in 0..n}

\* A path of the work tree is about to be named in a p4 command.
InitWildcard ==
    /\ DriverInit
    /\ options = [maximum |-> 0, change_batch_size |-> 0, repeat |-> FALSE,
                  stoponerror |-> FALSE, notransfer |-> FALSE, end_datetime |-> FALSE]
    /\ TextIdle
    /\ HistoryIdle
    /\ TranslateIdle
    /\ BranchIdle
    /\ wildPath \in WildPaths(MaxWildcardLen)
    /\ isWindows \in BOOLEAN
    /\ wpc = "start"
    /\ encodedPath = <<>>
    /\ decodedPath = <<>>
    /\ fixedLocalFile = <<>>

\* p4_edit, p4_delete, p4_revert, p4_integrate, p4_move: the path is encoded
\* for the command.
WildcardEncode ==
    /\ wpc = "start"
    /\ encodedPath' = wildcard_encode(wildPath)
    /\ wpc' = "encoded"
    /\ UNCHANGED <<wildPath, isWindows, decodedPath, fixedLocalFile>>
    /\ UNCHANGED besidesWildcard

\* wildcard_decode of the path the target reports.
WildcardDecode ==
    /\ wpc = "encoded"
    /\ decodedPath' = wildcard_decode(encodedPath, isWindows)
    /\ wpc' = "decoded"
    /\ UNCHANGED <<wildPath, isWindows, encodedPath, fixedLocalFile>>
    /\ UNCHANGED besidesWildcard

\* ChangeRevision.setLocalFile of the path the target reports.
SetsLocalFile ==
    /\ wpc = "decoded"
    /\ fixedLocalFile' = SetLocalFile(encodedPath, isWindows)
    /\ wpc' = "done"
    /\ UNCHANGED <<wildPath, isWindows, encodedPath, decodedPath>>
    /\ UNCHANGED besidesWildcard

NextWildcard ==
    \/ WildcardEncode
    \/ WildcardDecode
    \/ SetsLocalFile

\* One path on its way to the target and back.
SpecWildcard == InitWildcard /\ [][NextWildcard]_vars

\* --------------------------------- replicateCommit, one entry at a time
Mode755 == <<"1", "0", "0", "7", "5", "5">>
ModeLink == <<"1", "2", "0", "0", "0", "0">>

\* isModeExec(mode): mode[-3:] == "755"
isModeExec(mode) ==
    SubSeq(mode, IF Len(mode) > 3 THEN Len(mode) - 2 ELSE 1, Len(mode)) = <<"7", "5", "5">>

\* isModeExecChanged(src_mode, dst_mode)
isModeExecChanged(src_mode, dst_mode) == isModeExec(src_mode) # isModeExec(dst_mode)

\* What parseDiffTreeEntry returns for a line of git diff-tree -r -M: the
\* fields replicateCommit reads.  dst is the empty text where the line has
\* one path.
DiffEntry(status, src, dst, src_mode, dst_mode, src_sha1, dst_sha1) ==
    [status |-> status, src |-> src, dst |-> dst, src_mode |-> src_mode,
     dst_mode |-> dst_mode, src_sha1 |-> src_sha1, dst_sha1 |-> dst_sha1]

\* The paths of the translated commits: a plain one and one the target
\* reserves a character of; the second is the order git prints paths in.
TranslatePaths == {<<"a">>, <<"#">>}
PathOrder == <<<<"#">>, <<"a">>>>

FileModes == {Mode644, Mode755}

\* Source and target of a copy or a rename.
PathPairs == {pq \in TranslatePaths \X TranslatePaths : pq[1] # pq[2]}

\* The entries of a diff against the first parent: a changed file with or
\* without a flip of its executable bit, an added file, a deleted one, a copy
\* with or without a change of content, a rename (the target of a copy or
\* rename executable or not), a file that became a symbolic link, and an
\* entry whose status replicateCommit does not know.
DiffEntries ==
    {DiffEntry("M", p, <<>>, sm, dm, Sha1, Sha2) :
        p \in TranslatePaths, sm \in FileModes, dm \in FileModes}
    \cup {DiffEntry("A", p, <<>>, Mode0, dm, Sha0, Sha2) : p \in TranslatePaths, dm \in FileModes}
    \cup {DiffEntry("D", p, <<>>, Mode644, Mode0, Sha1, Sha0) : p \in TranslatePaths}
    \cup {DiffEntry("C", pq[1], pq[2], Mode644, dm, Sha1, sha) :
            pq \in PathPairs, dm \in FileModes, sha \in {Sha1, Sha2}}
    \cup {DiffEntry("R", pq[1], pq[2], Mode644, dm, Sha1, Sha1) :
            pq \in PathPairs, dm \in FileModes}
    \cup {DiffEntry("T", p, <<>>, Mode644, ModeLink, Sha1, Sha2) : p \in TranslatePaths}
    \cup {DiffEntry("X", <<"a">>, <<>>, Mode644, Mode644, Sha1, Sha2)}

Diffs(n) == UNION {[1..k -> DiffEntries] : k \in 0..n}

\* commit.fileChanges as getCommitDiffs captured it for a commit with one
\* parent, and for a merge, whose combined diff carries one letter per parent.
CapturedOf(diff) ==
    [i \in 1..Len(diff) |-> [changeTypes |-> diff[i].status, filename |-> diff[i].src]]

MergeCaptured(diff) ==
    [i \in 1..Len(diff) |->
        [changeTypes |-> IF diff[i].status = "M" THEN "MM" ELSE diff[i].status,
         filename |-> diff[i].src]]

\* getFileChanges(commit) runs git diff-tree -r <commit> <parent>: the diff
\* from the commit to its parent, without detection of renames.  Of a commit
\* whose diff from the parent is diff it reports an added file as deleted, a
\* deleted one as added, and a rename as its source added and its target
\* deleted; git prints the entries in the order of their paths.
Reversed(diff) ==
    UNION {LET e == diff[i]
           IN  CASE e.status = "A" -> {[changeTypes |-> "D", filename |-> e.src]}
                 [] e.status = "D" -> {[changeTypes |-> "A", filename |-> e.src]}
                 [] e.status = "R" -> {[changeTypes |-> "A", filename |-> e.src],
                                       [changeTypes |-> "D", filename |-> e.dst]}
                 [] e.status = "C" -> {[changeTypes |-> "D", filename |-> e.dst]}
                 [] OTHER -> {[changeTypes |-> e.status, filename |-> e.src]}
           : i \in 1..Len(diff)}

StatusOrder == <<"A", "D", "M", "T", "X">>

RECURSIVE GetFileChangesFrom(_, _, _)
GetFileChangesFrom(reversed, p, st) ==
    IF p > Len(PathOrder) THEN <<>>
    ELSE IF st > Len(StatusOrder) THEN GetFileChangesFrom(reversed, p + 1, 1)
    ELSE LET fc == [changeTypes |-> StatusOrder[st], filename |-> PathOrder[p]]
         IN  (IF fc \in reversed THEN <<fc>> ELSE <<>>)
                \o GetFileChangesFrom(reversed, p, st + 1)

GetFileChanges(diff) == GetFileChangesFrom(Reversed(diff), 1, 1)

\* self.p4cmd(...): a command with the path or paths it names, and the line
\* of the diff whose scan issued it (0 for a command of the loops after the
\* scan).
P4Cmd(op, file, to, line) == [op |-> op, file |-> file, to |-> to, line |-> line]

\* p4_edit, p4_delete, p4_revert: the path is encoded.
p4_edit(f, opts, line) ==
    P4Cmd(IF opts = "" THEN "edit" ELSE "edit " \o opts, wildcard_encode(f), <<>>, line)
p4_delete(f) == P4Cmd("delete", wildcard_encode(f), <<>>, 0)
p4_revert(f) == P4Cmd("revert", wildcard_encode(f), <<>>, 0)
\* p4_add: -f and the plain path where the path holds a wildcard.
p4_add(f) == P4Cmd(IF wildcard_present(f) THEN "add -f" ELSE "add", f, <<>>, 0)
p4_integrate(src, dest, line) ==
    P4Cmd("integrate -Dt", wildcard_encode(src), wildcard_encode(dest), line)
p4_move(src, dest, line) ==
    P4Cmd("move -k", wildcard_encode(src), wildcard_encode(dest), line)

\* filesToChangeExecBit[path] = mode
PutMode(bits, path, mode) == {b \in bits : b[1] # path} \cup {<<path, mode>>}

\* Mutant: a rename is moved before its source is opened.
ScanCommandsMoveFirst(e, line) ==
    CASE e.status = "M" -> <<p4_edit(e.src, "", line)>>
      [] e.status = "C" ->
            <<p4_integrate(e.src, e.dst, line)>>
            \o (IF e.src_sha1 # e.dst_sha1 THEN <<p4_edit(e.dst, "", line)>> ELSE <<>>)
            \o (IF isModeExecChanged(e.src_mode, e.dst_mode)
                THEN <<p4_edit(e.dst, "", line)>> ELSE <<>>)
      [] e.status = "R" -> <<p4_move(e.src, e.dst, line), p4_edit(e.src, "-k", line)>>
      [] OTHER -> <<>>

\* The commands the scan issues for entry e, read as line number line.
ScanCommands(e, line) ==
    CASE e.status = "M" -> <<p4_edit(e.src, "", line)>>
      [] e.status = "C" ->
            <<p4_integrate(e.src, e.dst, line)>>
            \o (IF e.src_sha1 # e.dst_sha1 THEN <<p4_edit(e.dst, "", line)>> ELSE <<>>)
            \o (IF isModeExecChanged(e.src_mode, e.dst_mode)
                THEN <<p4_edit(e.dst, "", line)>> ELSE <<>>)
      [] e.status = "R" -> <<p4_edit(e.src, "-k", line), p4_move(e.src, e.dst, line)>>
      [] OTHER -> <<>>

\* filesToChangeExecBit after the scan of entry e.
ScanExecBit(bits, e) ==
    CASE e.status = "M" ->
            IF isModeExecChanged(e.src_mode, e.dst_mode)
            THEN PutMode(bits, e.src, e.dst_mode) ELSE bits
      [] e.status = "A" -> PutMode(bits, e.src, e.dst_mode)
      [] e.status \in {"C", "R"} ->
            IF isModeExecChanged(e.src_mode, e.dst_mode)
            THEN PutMode(bits, e.dst, e.dst_mode) ELSE bits
      [] OTHER -> bits

\* Mutant: an A line leaves filesToDelete as it is.
AfterAddKeepsDelete(toDelete, path) == toDelete

\* if path in filesToDelete: filesToDelete.remove(path)
AfterAdd(toDelete, path) == toDelete \ {path}

\* Mutant: a D line leaves filesToAdd as it is.
AfterDeleteKeepsAdd(toAdd, path) == toAdd

\* if path in filesToAdd: filesToAdd.remove(path)
AfterDelete(toAdd, path) == toAdd \ {path}

\* The file type the target opens a path with.  p4 edit, p4 integrate and
\* p4 move keep the type of the revision they start from, which is the mode
\* the path (the source of a copy or rename) had in the parent commit.
KeepsType(x, path, mode) == IF isModeExec(mode) THEN x \cup {path} ELSE x \ {path}

ScanExecutable(x, e) ==
    CASE e.status = "M" -> KeepsType(x, e.src, e.src_mode)
      [] e.status \in {"C", "R"} -> KeepsType(x \ {e.src}, e.dst, e.src_mode)
      [] OTHER -> x

\* The mode path has in the work tree, which holds the commit: that of the
\* last entry of the diff that writes the path.  p4 add, and p4 edit -t auto,
\* take the file type from the file in the work tree.
WorkTreeMode(diff, path) ==
    LET writes == {i \in 1..Len(diff) :
                      /\ diff[i].status # "D"
                      /\ path = IF diff[i].status \in {"C", "R"} THEN diff[i].dst ELSE diff[i].src}
    IN  IF writes = {} THEN Mode0
        ELSE diff[CHOOSE i \in writes : \A j \in writes : j <= i].dst_mode

\* The action a path is open for on the target after a command, for a
\* workspace that mirrors the parent commit: the files the commands name as
\* existing are in the depot, the targets of copies and renames are not.
\* p4 move needs its source open for edit and leaves it open as move/delete,
\* its target as move/add (the actions testRename reads from p4 filelog).  A
\* path already open keeps its action; revert closes it.
OpenAs(open, path, action) ==
    IF \E o \in open : o[1] = path THEN open ELSE open \cup {<<path, action>>}

TargetOpens(open, cmd) ==
    CASE cmd.op \in {"edit", "edit -k", "edit -t auto"} -> OpenAs(open, cmd.file, "edit")
      [] cmd.op \in {"add", "add -f"} -> OpenAs(open, wildcard_encode(cmd.file), "add")
      [] cmd.op = "delete" -> OpenAs(open, cmd.file, "delete")
      [] cmd.op = "revert" -> {o \in open : o[1] # cmd.file}
      [] cmd.op = "integrate -Dt" -> OpenAs(open, cmd.to, "branch")
      [] cmd.op = "move -k" ->
            IF <<cmd.file, "edit">> \in open /\ ~\E o \in open : o[1] = cmd.to
            THEN (open \ {<<cmd.file, "edit">>})
                    \cup {<<cmd.file, "move/delete">>, <<cmd.to, "move/add">>}
            ELSE open
      [] OTHER -> open

RECURSIVE TargetActions(_)
TargetActions(cmds) ==
    IF cmds = <<>> THEN {}
    ELSE TargetOpens(TargetActions(SubSeq(cmds, 1, Len(cmds) - 1)), cmds[Len(cmds)])

\* Mutant: the files to add are added before the types are changed.
LoopAfterAddsFirst(at) ==
    CASE at = "scan" -> "adds"
      [] at = "adds" -> "types"
      [] at = "types" -> "deletes"
      [] OTHER -> "opened"

\* The order of the loops of replicateCommit for a commit with a parent.
LoopAfter(at) ==
    CASE at = "scan" -> "types"
      [] at = "types" -> "adds"
      [] at = "adds" -> "deletes"
      [] OTHER -> "opened"

\* The set a loop iterates over.
LoopSet(at) ==
    CASE at = "types" -> filesToChangeType
      [] at = "adds" -> filesToAdd
      [] at = "deletes" -> filesToDelete
      [] OTHER -> {}

\* The entries of the list save_submit returns: the dictionary of the
\* pending change, and the one that reports the submitted change.
ResultEntries ==
    {[change |-> 7, locked |-> 1], [submittedChange |-> 7], [submittedChange |-> 8]}

SubmitResults(n) == UNION {[1..k -> ResultEntries] : k \in 0..n}

\* The commit the loop of replicate_commits hands to replicateCommit: the
\* second of the history, its parent replicated and recorded.
TranslatedCommits(diff) ==
    {[commitID |-> IdPool[2], parents |-> <<IdPool[1]>>, fileChanges |-> fcs] :
        fcs \in {<<>>, CapturedOf(diff), MergeCaptured(diff)}}

TranslateOf(diffs) ==
    /\ source = <<>>
    /\ checkedOut = IdPool[2]
    /\ counter = IdPool[1]
    /\ changes = <<IdPool[1]>>
    /\ depot = {}
    /\ opened = {}
    /\ clientspec = "updated"
    /\ options = [maximum |-> 0, change_batch_size |-> 0, repeat |-> FALSE,
                  stoponerror |-> FALSE, notransfer |-> FALSE, end_datetime |-> FALSE]
    /\ deadlinePassed = FALSE
    /\ pc = "replicate"
    /\ finished = FALSE
    /\ num_changes = 0
    /\ commitIDs = <<IdPool[2]>>
    /\ idx = 1
    /\ changesTransferred = 0
    /\ previous_target_change_counter = 0
    /\ filelog = [f \in Files |-> <<>>]
    /\ exc = NoExc
    /\ failures = 0
    /\ result = -1
    /\ TextIdle
    /\ HistoryIdle
    /\ WildcardIdle
    /\ BranchIdle
    /\ diffTree \in diffs
    /\ translated \in TranslatedCommits(diffTree)
    /\ fileChanges = <<>>
    /\ tpc = "sync"
    /\ tpos = 0
    /\ issued = <<>>
    /\ filesToAdd = {}
    /\ filesToChangeType = {}
    /\ filesToDelete = {}
    /\ filesToChangeExecBit = {}
    /\ iterated = {}
    /\ executable = {}
    /\ submitResult = <<>>
    /\ scanAt = 0
    /\ newChangeId = 0
    /\ earlier = None

InitTranslate == TranslateOf(Diffs(MaxDiffLen))

InitSubmit == TranslateOf(Diffs(MaxSubmitDiffLen))

\* lines 1021-1025: p4 sync -k, fileChanges = commit.fileChanges, and the
\* fallback to getFileChanges; lines 1041-1050: the diff is read and the
\* collections start empty.
SyncAndFallback ==
    /\ tpc = "sync"
    /\ fileChanges' = IF NeedsFallback(translated)
                      THEN GetFileChanges(diffTree) ELSE translated.fileChanges
    /\ tpc' = "scan"
    /\ UNCHANGED <<translated, diffTree, tpos, issued, filesToAdd, filesToChangeType,
                   filesToDelete, filesToChangeExecBit, iterated, executable,
                   submitResult, scanAt, newChangeId, earlier>>
    /\ UNCHANGED <<counter, exc, besidesTranslate>>

\* What the scan of entry e raises.  The branch of a copy reads
\* self.isWindows after its commands (line 1087), an attribute that neither
\* P4Target.__init__ nor P4Base.__init__ sets: AttributeError.  A modifier
\* that is none of M, A, D, C, R, T raises Exception (line 1103).
ScanRaises(e) ==
    CASE e.status = "C" -> "AttributeError"
      [] e.status \in {"M", "A", "D", "R", "T"} -> "none"
      [] OTHER -> "Exception"

\* lines 1052-1103: one line of the diff
ScanLine ==
    /\ tpc = "scan"
    /\ tpos < Len(diffTree)
    /\ LET e == diffTree[tpos + 1]
       IN  /\ tpos' = tpos + 1
           /\ issued' = issued \o ScanCommands(e, tpos + 1)
           /\ filesToChangeExecBit' = ScanExecBit(filesToChangeExecBit, e)
           /\ executable' = ScanExecutable(executable, e)
           /\ filesToAdd' = CASE e.status = "A" -> filesToAdd \cup {e.src}
                              [] e.status = "D" -> AfterDelete(filesToAdd, e.src)
                              [] OTHER -> filesToAdd
           /\ filesToDelete' = CASE e.status = "D" -> filesToDelete \cup {e.src}
                                 [] e.status = "A" -> AfterAdd(filesToDelete, e.src)
                                 [] OTHER -> filesToDelete
           /\ filesToChangeType' = IF e.status = "T" THEN filesToChangeType \cup {e.src}
                                   ELSE filesToChangeType
           /\ IF e.status \in {"M", "A", "D", "R", "T"}
              THEN UNCHANGED <<tpc, exc>>
              ELSE /\ tpc' = "raised"
                   /\ exc' = Exc(ScanRaises(e), "replicateCommit")
    /\ UNCHANGED <<translated, diffTree, fileChanges, iterated, submitResult, scanAt,
                   newChangeId, earlier>>
    /\ UNCHANGED <<counter, besidesTranslate>>

\* The scan, or a loop over one of the sets, is through: the next loop starts.
NextLoop ==
    /\ \/ tpc = "scan" /\ tpos = Len(diffTree)
       \/ tpc \in {"types", "adds", "deletes"} /\ iterated = LoopSet(tpc)
    /\ tpc' = LoopAfter(tpc)
    /\ iterated' = {}
    /\ UNCHANGED <<translated, diffTree, fileChanges, tpos, issued, filesToAdd,
                   filesToChangeType, filesToDelete, filesToChangeExecBit, executable,
                   submitResult, scanAt, newChangeId, earlier>>
    /\ UNCHANGED <<counter, exc, besidesTranslate>>

\* lines 1105-1106: for f in filesToChangeType.  The order in which a set of
\* strings is iterated depends on the hashes of the strings, which Python
\* draws anew for every process: any element not yet visited can be next.
ChangeType ==
    /\ tpc = "types"
    /\ \E f \in filesToChangeType \ iterated :
          /\ issued' = Append(issued, p4_edit(f, "-t auto", 0))
          /\ executable' = KeepsType(executable, f, WorkTreeMode(diffTree, f))
          /\ iterated' = iterated \cup {f}
    /\ UNCHANGED <<translated, diffTree, fileChanges, tpc, tpos, filesToAdd,
                   filesToChangeType, filesToDelete, filesToChangeExecBit,
                   submitResult, scanAt, newChangeId, earlier>>
    /\ UNCHANGED <<counter, exc, besidesTranslate>>

\* lines 1107-1108: for f in filesToAdd
AddFile ==
    /\ tpc = "adds"
    /\ \E f \in filesToAdd \ iterated :
          /\ issued' = Append(issued, p4_add(f))
          /\ executable' = KeepsType(executable, f, WorkTreeMode(diffTree, f))
          /\ iterated' = iterated \cup {f}
    /\ UNCHANGED <<translated, diffTree, fileChanges, tpc, tpos, filesToAdd,
                   filesToChangeType, filesToDelete, filesToChangeExecBit,
                   submitResult, scanAt, newChangeId, earlier>>
    /\ UNCHANGED <<counter, exc, besidesTranslate>>

\* lines 1109-1111: for f in filesToDelete
DeleteFile ==
    /\ tpc = "deletes"
    /\ \E f \in filesToDelete \ iterated :
          /\ issued' = issued \o <<p4_revert(f), p4_delete(f)>>
          /\ executable' = executable \ {f}
          /\ iterated' = iterated \cup {f}
    /\ UNCHANGED <<translated, diffTree, fileChanges, tpc, tpos, filesToAdd,
                   filesToChangeType, filesToDelete, filesToChangeExecBit,
                   submitResult, scanAt, newChangeId, earlier>>
    /\ UNCHANGED <<counter, exc, besidesTranslate>>

\* The commit is translated once more from the same state of the target: the
\* run failed after the staging, the next run reverted the opened files and
\* reached the commit again.  The commands of the first translation are kept
\* for comparison; the second translation is followed up to p4 opened.
Retranslate ==
    /\ tpc = "opened"
    /\ earlier = None
    /\ earlier' = Some(issued)
    /\ tpc' = "sync"
    /\ fileChanges' = <<>>
    /\ tpos' = 0
    /\ issued' = <<>>
    /\ filesToAdd' = {}
    /\ filesToChangeType' = {}
    /\ filesToDelete' = {}
    /\ filesToChangeExecBit' = {}
    /\ iterated' = {}
    /\ executable' = {}
    /\ UNCHANGED <<translated, diffTree, submitResult, scanAt, newChangeId>>
    /\ UNCHANGED <<counter, exc, besidesTranslate>>

\* lines 1119-1121 and 1159: p4 opened lists nothing, replicateCommit returns
\* None.  No command, no open file; with commands it is the target that says
\* whether a file is open.
NothingToSubmit ==
    /\ tpc = "opened"
    /\ earlier = None
    /\ tpc' = "returned"
    /\ UNCHANGED <<translated, diffTree, fileChanges, tpos, issued, filesToAdd,
                   filesToChangeType, filesToDelete, filesToChangeExecBit, iterated,
                   executable, submitResult, scanAt, newChangeId, earlier>>
    /\ UNCHANGED <<counter, exc, besidesTranslate>>

\* lines 1122-1139: the description, fetch_change, save_submit; a = -1
SaveSubmit ==
    /\ tpc = "opened"
    /\ earlier = None
    /\ issued # <<>>
    /\ submitResult' \in SubmitResults(MaxResultLen)
    /\ scanAt' = -1
    /\ tpc' = "confirm"
    /\ UNCHANGED <<translated, diffTree, fileChanges, tpos, issued, filesToAdd,
                   filesToChangeType, filesToDelete, filesToChangeExecBit, iterated,
                   executable, newChangeId, earlier>>
    /\ UNCHANGED <<counter, exc, besidesTranslate>>

\* result[a] for a negative a: IndexError below -len(result)
ResultAt(res, a) == IF -a <= Len(res) THEN Some(res[Len(res) + 1 + a]) ELSE None

\* Mutant: the scan starts at the first entry and goes forward.
ScanStepForward(res, a) ==
    LET at == IF -a <= Len(res) THEN Some(res[-a]) ELSE None
    IN  IF at = None THEN Outcome("IndexError", 0)
        ELSE IF "submittedChange" \in DOMAIN at[1]
             THEN Outcome("found", at[1].submittedChange)
             ELSE Outcome("next", a - 1)

\* lines 1140-1142: while 'submittedChange' not in result[a]: a -= 1
ScanStep(res, a) ==
    LET at == ResultAt(res, a)
    IN  IF at = None THEN Outcome("IndexError", 0)
        ELSE IF "submittedChange" \in DOMAIN at[1]
             THEN Outcome("found", at[1].submittedChange)
             ELSE Outcome("next", a - 1)

ScanSubmitResult ==
    /\ tpc = "confirm"
    /\ LET step == ScanStep(submitResult, scanAt)
       IN  CASE step.result = "IndexError" ->
                  /\ tpc' = "raised"
                  /\ exc' = Exc("IndexError", "replicateCommit")
                  /\ UNCHANGED <<scanAt, newChangeId>>
             [] step.result = "found" ->
                  /\ newChangeId' = step.value
                  /\ tpc' = "updateChange"
                  /\ UNCHANGED <<scanAt, exc>>
             [] OTHER ->
                  /\ scanAt' = step.value
                  /\ UNCHANGED <<tpc, newChangeId, exc>>
    /\ UNCHANGED <<translated, diffTree, fileChanges, tpos, issued, filesToAdd,
                   filesToChangeType, filesToDelete, filesToChangeExecBit, iterated,
                   executable, submitResult, earlier>>
    /\ UNCHANGED <<counter, besidesTranslate>>

\* lines 1150-1159: if newChangeId: updateChange(...); return newChangeId
UpdateDescription ==
    /\ tpc = "updateChange"
    /\ tpc' = "returned"
    /\ UNCHANGED <<translated, diffTree, fileChanges, tpos, issued, filesToAdd,
                   filesToChangeType, filesToDelete, filesToChangeExecBit, iterated,
                   executable, submitResult, scanAt, newChangeId, earlier>>
    /\ UNCHANGED <<counter, exc, besidesTranslate>>

\* replicate_commits, lines 1342-1343: replicateCommit has returned, the
\* counter is set to the id of the commit.
LoopSetsCounter ==
    /\ tpc = "returned"
    /\ counter' = translated.commitID
    /\ tpc' = "recorded"
    /\ UNCHANGED <<translated, diffTree, fileChanges, tpos, issued, filesToAdd,
                   filesToChangeType, filesToDelete, filesToChangeExecBit, iterated,
                   executable, submitResult, scanAt, newChangeId, earlier>>
    /\ UNCHANGED <<exc, besidesTranslate>>

\* replicateCommit up to p4 opened.
NextStaging ==
    \/ SyncAndFallback
    \/ ScanLine
    \/ NextLoop
    \/ ChangeType
    \/ AddFile
    \/ DeleteFile
    \/ Retranslate

NextTranslate ==
    \/ NextStaging
    \/ NothingToSubmit
    \/ SaveSubmit
    \/ ScanSubmitResult
    \/ UpdateDescription
    \/ LoopSetsCounter

\* The staging of one commit with a parent, up to p4 opened.
SpecTranslate == InitTranslate /\ [][NextStaging]_vars

\* One commit with a parent on its way through replicateCommit and back to
\* the loop of replicate_commits.
SpecSubmit == InitSubmit /\ [][NextTranslate]_vars

\* ------------------------------------------------ branches of the commits
MaxGraph == 4
ANON_BRANCH_PREFIX == "_anon"

\* The refs of the repository; the commits are listed for all of them.
RefNames == {"main", "dev", "topic"}

\* options.branch_maps: the configured branches, in the order configured
ConfiguredRefs == {<<"main">>, <<"main", "dev">>, <<"dev", "main">>}

\* The histories of up to n commits: the commit created k-th has one of the
\* commits before it as first parent, or none (0).
Graphs(n) ==
    UNION {{g \in [1..k -> 0..(k - 1)] : \A c \in 1..k : g[c] < c} : k \in 1..n}

\* git rev-list --first-parent of a commit: the commit, its first parent and
\* so on down to a root
RECURSIVE FirstParentLine(_, _)
FirstParentLine(g, c) == IF c = 0 THEN <<>> ELSE <<c>> \o FirstParentLine(g, g[c])

\* getBranchCommits(branchRefs)[b]
getBranchCommits(b) == FirstParentLine(firstParents, refTips[b])

OnLineOf(b) == {getBranchCommits(b)[i] : i \in 1..Len(getBranchCommits(b))}

RECURSIVE Ascending(_)
Ascending(S) ==
    IF S = {} THEN <<>>
    ELSE LET least == CHOOSE c \in S : \A d \in S : c <= d
         IN  <<least>> \o Ascending(S \ {least})

\* commitList of getCommitDiffs(refs): the commits on the first-parent line
\* of a ref, oldest first
BranchCommitList == Ascending(UNION {OnLineOf(b) : b \in DOMAIN refTips})

\* commits[id].parents as far as updateBranchInfo reads it
ParentsOf(c) == IF firstParents[c] = 0 THEN <<>> ELSE <<firstParents[c]>>

\* GitCommit.__init__: branch, parentBranch and firstOnBranch
NoBranchInfo == [branch |-> None, parentBranch |-> None, firstOnBranch |-> FALSE]

\* "%d" % n
RECURSIVE Decimal(_)
Decimal(n) == IF n < 10 THEN <<n>> ELSE Append(Decimal(n \div 10), n % 10)

\* "%04d" % n
RECURSIVE ZeroPad(_, _)
ZeroPad(digits, width) ==
    IF Len(digits) >= width THEN digits ELSE ZeroPad(<<0>> \o digits, width)

\* "%s%04d" % (ANON_BRANCH_PREFIX, n); a branch name is the sequence of its
\* parts, a configured one the name alone
AnonBranch(n) == <<ANON_BRANCH_PREFIX>> \o ZeroPad(Decimal(n), 4)

\* branch.startswith(ANON_BRANCH_PREFIX)
anonymousBranch(name) == name # <<>> /\ name[1] = ANON_BRANCH_PREFIX

\* Mutant: a commit that has a parent is labelled again.
NotLabelledOrConfigured(info, c) == info[c].branch = None \/ ParentsOf(c) # <<>>

\* line 646: not commits[id].branch
NotLabelled(info, c) == info[c].branch = None

\* updateBranchInfo is called on the commits of a repository.
InitBranches ==
    /\ DriverInit
    /\ options = [maximum |-> 0, change_batch_size |-> 0, repeat |-> FALSE,
                  stoponerror |-> FALSE, notransfer |-> FALSE, end_datetime |-> FALSE]
    /\ TextIdle
    /\ HistoryIdle
    /\ TranslateIdle
    /\ WildcardIdle
    /\ firstParents \in Graphs(MaxGraph)
    /\ refTips \in [RefNames -> 1..Len(firstParents)]
    /\ branchRefs \in ConfiguredRefs
    /\ branchInfo = [c \in 1..Len(firstParents) |-> NoBranchInfo]
    /\ anonBranchInd = 0
    /\ bpc = "configured"
    /\ bref = 1
    /\ bidx = 1

\* lines 639-643: one commit of one configured branch
LabelConfigured ==
    /\ bpc = "configured"
    /\ LET b == branchRefs[bref]
           id == getBranchCommits(b)[bidx]
       IN  IF \A i \in 1..Len(BranchCommitList) : BranchCommitList[i] # id
           THEN /\ bpc' = "raised"
                /\ exc' = Exc("P4TException", "updateBranchInfo")
                /\ UNCHANGED <<branchInfo, bref, bidx>>
           ELSE /\ branchInfo' = [branchInfo EXCEPT ![id].branch = <<b>>]
                /\ exc' = exc
                /\ IF bidx < Len(getBranchCommits(b))
                   THEN bidx' = bidx + 1 /\ UNCHANGED <<bref, bpc>>
                   ELSE /\ bidx' = 1
                        /\ IF bref < Len(branchRefs)
                           THEN bref' = bref + 1 /\ bpc' = bpc
                           ELSE bref' = bref /\ bpc' = "anonymous"
    /\ UNCHANGED <<firstParents, refTips, branchRefs, anonBranchInd>>
    /\ UNCHANGED besidesBranches

\* lines 645-656: one commit of the list
LabelAnonymous ==
    /\ bpc = "anonymous"
    /\ LET id == BranchCommitList[bidx]
           after == IF bidx < Len(BranchCommitList) THEN "anonymous" ELSE "returned"
       IN  IF ~NotLabelled(branchInfo, id)
           THEN /\ bidx' = bidx + 1
                /\ bpc' = after
                /\ UNCHANGED <<branchInfo, anonBranchInd, exc>>
           ELSE IF ParentsOf(id) = <<>>
           THEN /\ bpc' = "raised"
                /\ exc' = Exc("IndexError", "updateBranchInfo")
                /\ UNCHANGED <<branchInfo, anonBranchInd, bidx>>
           ELSE IF branchInfo[ParentsOf(id)[1]].branch = None
           THEN /\ bpc' = "raised"
                /\ exc' = Exc("AssertionError", "updateBranchInfo")
                /\ UNCHANGED <<branchInfo, anonBranchInd, bidx>>
           ELSE /\ IF ~anonymousBranch(branchInfo[ParentsOf(id)[1]].branch)
                   THEN /\ anonBranchInd' = anonBranchInd + 1
                        /\ branchInfo' =
                              [branchInfo EXCEPT
                                  ![id] = [branch |-> AnonBranch(anonBranchInd + 1),
                                           parentBranch |-> branchInfo[ParentsOf(id)[1]].branch,
                                           firstOnBranch |-> TRUE]]
                   ELSE /\ anonBranchInd' = anonBranchInd
                        /\ branchInfo' =
                              [branchInfo EXCEPT
                                  ![id].branch = branchInfo[ParentsOf(id)[1]].branch]
                /\ bidx' = bidx + 1
                /\ bpc' = after
                /\ exc' = exc
    /\ UNCHANGED <<firstParents, refTips, branchRefs, bref>>
    /\ UNCHANGED besidesBranches

NextBranches ==
    \/ LabelConfigured
    \/ LabelAnonymous

\* One call of updateBranchInfo.
SpecBranches == InitBranches /\ [][NextBranches]_vars

\* ================================================================== claims
\* Position of a commit id in the source history, 0 for a value that is no
\* commit of it (the empty counter of a fresh target).
Pos(id) ==
    LET hits == {k \in 1..Len(source) : source[k].commitID = id}
    IN IF hits = {} THEN 0 ELSE CHOOSE k \in hits : \A j \in hits : k <= j

\* Driver positions at which commit commitIDs[idx] is being applied.
InFlightPcs == {"checkout", "replicate", "staged", "submitted", "setCounter"}

\* A step with which the application of commitIDs[idx] raises.
RaisesInFlight == pc \in InFlightPcs /\ pc' = "except"

\* C1: the counter changes only in the setCounter step of a commit whose
\* checkout and replicateCommit have returned (it is the checked-out commit and
\* nothing is left open), and it is set to that commit's id; a step that raises
\* while commit idx is applied leaves the counter as it was before the commit
\* was started: the id of the previous commit of the batch, never an id of
\* this commit or a later one.
C1_CursorOnlyAfterSuccess ==
    [][ /\ (counter' # counter =>
              /\ pc = "setCounter"
              /\ counter' = commitIDs[idx]
              /\ checkedOut = commitIDs[idx]
              /\ opened = {})
        /\ (RaisesInFlight =>
              /\ counter' = counter
              /\ (idx > 1 => counter' = commitIDs[idx - 1])
              /\ \A j \in idx..Len(commitIDs) : counter' # commitIDs[j]) ]_vars

\* C1 witness: the second commit of a batch raised after the first one was
\* recorded.
C1_Witness ==
    /\ pc = "except"
    /\ idx = 2
    /\ Len(commitIDs) >= 2
    /\ counter = commitIDs[1]
    /\ checkedOut = commitIDs[2]


\* C2: the list a batch computes is the run of the history that starts with
\* the commit right after the persisted counter: no commit at or before the
\* counter is in it.  A step that raises while commit idx is applied leaves the
\* counter on the commit right before commit idx, so the list of the next
\* batch starts with exactly that commit.
C2_BatchStartsAfterCursor ==
    [][ /\ (pc = "loop" /\ pc' \in {"revert", "afterBatch"} =>
              /\ \A j \in 1..Len(commitIDs') :
                    /\ Pos(counter) + j <= Len(source)
                    /\ commitIDs'[j] = source[Pos(counter) + j].commitID
              /\ (Pos(counter) < Len(source) => Len(commitIDs') >= 1))
        /\ (RaisesInFlight =>
              /\ Pos(commitIDs[idx]) = Pos(counter') + 1
              /\ MissingCommits(source', counter', options)[1] = commitIDs[idx]) ]_vars

\* C2 witness: a batch starts over with the commit whose earlier attempt
\* failed and left its files open (the swallowed revert did not clear them),
\* the commits before it being skipped.
C2_Witness ==
    /\ pc = "replicate"
    /\ idx = 1
    /\ failures >= 1
    /\ opened # {}
    /\ \A r \in opened : r.commit = commitIDs[1]
    /\ Pos(commitIDs[1]) = 2
    /\ counter = source[1].commitID

\* C3 as stated: after a batch that returned normally and processed at least
\* one commit, the counter is the id of the last submitted changelist's commit.
C3_Original ==
    (pc = "afterBatch" /\ changesTransferred > 0) =>
        (changes # <<>> /\ counter = changes[Len(changes)])

\* C3 as amended: after a batch that returned normally and processed at least
\* one commit, the counter is the id of the last commit the batch checked out
\* and translated, with or without a submitted changelist for it; no
\* changelist exists for a commit after the counter.
C3_CursorIsLastProcessed ==
    (pc = "afterBatch" /\ changesTransferred > 0) =>
        /\ changesTransferred <= Len(commitIDs)
        /\ counter = commitIDs[changesTransferred]
        /\ checkedOut = counter
        /\ idx = changesTransferred + 1
        /\ \A i \in 1..Len(changes) : Pos(changes[i]) <= Pos(counter)

\* C3 witness: a batch is over, its last processed commit opened no file and
\* got no changelist, and the counter names it.
C3_Witness ==
    /\ pc = "afterBatch"
    /\ changesTransferred > 0
    /\ changes # <<>>
    /\ counter = commitIDs[changesTransferred]
    /\ counter # changes[Len(changes)]

\* C4: while a commit after the first of a batch is applied the counter
\* already names the commit before it, so the counter is written per commit and
\* before the next checkout; and whatever has been applied to the target
\* without being recorded (a changelist for a commit after the counter, a file
\* open in the workspace) belongs to one commit, the one right after the
\* counter.
C4_AtMostInFlightUnrecorded ==
    LET next == Pos(counter) + 1
    IN /\ (pc \in InFlightPcs /\ idx > 1 => counter = commitIDs[idx - 1])
       /\ (pc \in InFlightPcs => Pos(commitIDs[idx]) = next)
       /\ (changes # <<>> => Pos(changes[Len(changes)]) <= next)
       /\ \A i \in 1..(Len(changes) - 1) : Pos(changes[i]) <= Pos(changes[i + 1])
       /\ \A r \in opened : Pos(r.commit) = next

\* C4 witness: the process was killed between the submit of a commit and the
\* write of the counter; that commit is the only unrecorded one.
C4_Witness ==
    /\ pc = "exit"
    /\ result = -1
    /\ changes # <<>>
    /\ Pos(changes[Len(changes)]) = Pos(counter) + 1
    /\ Pos(counter) >= 1


\* C5: whatever the point at which a run fails or is killed, and however
\* often it is restarted, no source commit has two changelists on the target.
C5_NoCommitSubmittedTwice ==
    \A i, j \in 1..Len(changes) : changes[i] = changes[j] => i = j

\* C6: while the counter names the last commit of the history and no commit
\* is added, no step changes the target (counter, changelists, depot files,
\* open files, client spec) and the driver enters none of the positions that
\* revert, check out, stage, submit or write the counter.
C6_NoNewCommitsNoMutation ==
    [][ (/\ source # <<>>
         /\ counter = source[Len(source)].commitID
         /\ source' = source) =>
            /\ UNCHANGED <<counter, changes, depot, opened, clientspec>>
            /\ pc' \notin ({"revert"} \cup InFlightPcs) ]_vars

\* C6 witness: a batch that found the counter on the last commit has returned
\* with an empty list, on a target that holds changelists of earlier batches.
C6_Witness ==
    /\ pc = "afterBatch"
    /\ ~options.notransfer
    /\ source # <<>>
    /\ counter = source[Len(source)].commitID
    /\ commitIDs = <<>>
    /\ num_changes = 0
    /\ changes # <<>>

C8_ListWithinSmallerBound ==
    LET b == options.change_batch_size
        m == options.maximum
        bound == IF b > 0 /\ m > 0 THEN Min(b, m) ELSE IF b > 0 THEN b ELSE m
    IN (b > 0 \/ m > 0) => Len(commitIDs) <= bound

\* C9: one invocation of replicate() with --maximum m moves the counter over
\* at most m commits (the target is fresh when the invocation starts, so the
\* position of the counter is the number of commits transferred).
C9_MaximumBoundsInvocation ==
    options.maximum > 0 => Pos(counter) <= options.maximum

\* C10 as stated: after a batch without error the driver exits when --repeat
\* is not set, and with --repeat it sleeps and then starts another batch.
C10_Original ==
    [][ /\ (pc = "afterBatch" /\ pc' # pc =>
              IF options.repeat THEN pc' = "pollSleep" ELSE pc' = "exit" /\ result' = 0)
        /\ (pc = "pollSleep" /\ pc' # pc => pc' = "loop") ]_vars

\* C10 as amended: after a batch without error, a full batch (change_batch_size
\* set and at least that many commits transferred) is followed by another
\* batch at once, with or without --repeat; otherwise without --repeat the
\* driver exits with 0; otherwise it sleeps for the poll interval and then
\* starts another batch, unless --notransfer is set or --end-datetime had
\* passed before the sleep, in which case it exits with 0 after the sleep.
C10_AfterBatch ==
    [][ /\ (pc = "afterBatch" /\ pc' # pc =>
              IF options.change_batch_size # 0 /\ num_changes >= options.change_batch_size
              THEN pc' = "loop" /\ result' = -1
              ELSE IF ~options.repeat
              THEN pc' = "exit" /\ result' = 0
              ELSE /\ pc' = "pollSleep"
                   /\ finished' = (options.notransfer \/ endDatetimeExceeded))
        /\ (pc = "pollSleep" /\ pc' # pc =>
              IF finished THEN pc' = "exit" /\ result' = 0 ELSE pc' = "loop") ]_vars

\* C10 witness: without --repeat a second batch is under way after a full
\* first batch, no error having occurred.
C10_Witness ==
    /\ ~options.repeat
    /\ failures = 0
    /\ pc = "checkout"
    /\ options.change_batch_size # 0
    /\ num_changes >= options.change_batch_size
    /\ changesTransferred = 0
    /\ counter # ""

\* C11: the deadline is read only at the head of the for loop.  With the
\* deadline exceeded there, the batch returns without touching source or
\* target, the commits it applied being the ones the counter records; with
\* the deadline exceeded no commit is started, in this batch or a later one;
\* and a commit that has been started goes on to its setCounter or to an
\* exception whether or not the deadline passes meanwhile.
C11_DeadlineBetweenCommits ==
    [][ /\ (pc = "for" /\ endDatetimeExceeded =>
              /\ pc' = "afterBatch"
              /\ num_changes' = changesTransferred
              /\ changesTransferred = idx - 1
              /\ (idx > 1 => counter = commitIDs[idx - 1])
              /\ UNCHANGED <<gitVars, targetVars>>)
        /\ (endDatetimeExceeded /\ pc \notin InFlightPcs => pc' \notin InFlightPcs)
        /\ (pc \in InFlightPcs =>
              /\ pc' \in InFlightPcs \cup {"for", "except"}
              /\ (pc' = "for" => pc = "setCounter" /\ counter' = commitIDs[idx])) ]_vars

\* C11 witness: a batch has returned early, after a commit during which the
\* deadline passed and before the next commit of its list.
C11_Witness ==
    /\ pc = "afterBatch"
    /\ endDatetimeExceeded
    /\ failures = 0
    /\ changesTransferred >= 1
    /\ changesTransferred < Len(commitIDs)
    /\ counter = commitIDs[changesTransferred]
    /\ checkedOut = counter

\* C12 as stated: the files a failed attempt left open are reverted before
\* the commit list of the next batch is fetched, so no file is open once the
\* list has been fetched.
C12_Original ==
    pc = "revert" => opened = {}

\* C12 as amended: a batch first fetches its commit list, the files of a
\* failed attempt still being open; only a batch with commits to transfer goes
\* on to revertOpenedFiles, which either clears the open files or, its errors
\* being ignored, leaves them, and touches nothing else; the first commit of a
\* batch is reached through that revert only.  A batch with nothing to
\* transfer leaves the open files as they are.
C12_RevertAfterListBeforeCheckout ==
    [][ /\ (pc = "loop" /\ pc' = "revert" =>
              /\ ~options.notransfer
              /\ commitIDs' = MissingCommits(source, counter, options)
              /\ commitIDs' # <<>>
              /\ opened' = opened)
        /\ (pc = "loop" /\ pc' = "afterBatch" =>
              /\ options.notransfer \/ MissingCommits(source, counter, options) = <<>>
              /\ opened' = opened)
        /\ (pc = "revert" /\ pc' # "exit" =>
              /\ pc' = "for"
              /\ idx' = 1
              /\ opened' \in {{}, opened}
              /\ UNCHANGED <<gitVars, counter, changes, depot, filelog, commitIDs>>)
        /\ (pc' = "for" /\ idx' = 1 => pc = "revert")
        /\ (pc' = "checkout" => pc = "for" /\ idx' = idx) ]_vars

\* C12 witness: the list of a batch has been fetched and the files the failed
\* attempt at its first commit left open are still open, the revert being next.
C12_Witness ==
    /\ pc = "revert"
    /\ failures >= 1
    /\ opened # {}
    /\ commitIDs # <<>>
    /\ \A r \in opened : r.commit = commitIDs[1]

\* The errors of the translation logic: an action not implemented for a
\* commit without parents, an unknown modifier, a submit result without
\* 'submittedChange'.
LogicError(e) ==
    \/ e.cls \in {"P4TLogicException", "Exception"}
    \/ e.cls = "IndexError" /\ e.at = "replicateCommit"

\* C13: a translation logic error stops the run: the step that handles it
\* returns from replicate() with a non-zero result and leaves the counter as
\* it is, so neither that commit nor a later one is attempted again.
C13_LogicErrorStopsRun ==
    [][ pc = "except" /\ LogicError(exc) =>
            pc' = "exit" /\ result' = 1 /\ counter' = counter ]_vars

\* The transient errors of the infrastructure: a failing p4 command, a
\* failing git command.
TransientError(e) == e.cls \in {"P4Exception", "CalledProcessError"}

\* C14: the step with which a transient error is raised leaves the counter
\* as it is; while the error is handled the commit right after the counter is
\* the commit that was being applied; with --stoponerror the handler returns
\* 1, otherwise it goes to the sleep on error, after which the loop starts
\* another batch, counter, source and target being what they were when the
\* error was raised.
C14_TransientErrorRetries ==
    [][ /\ (pc # "except" /\ pc' = "except" /\ TransientError(exc') =>
              counter' = counter)
        /\ (pc = "except" /\ TransientError(exc) =>
              /\ (exc.at # "replicate_commits" =>
                    MissingCommits(source, counter, options)[1] = commitIDs[idx])
              /\ UNCHANGED <<gitVars, targetVars>>
              /\ IF options.stoponerror
                 THEN pc' = "exit" /\ result' = 1
                 ELSE pc' = "errorSleep" /\ result' = -1)
        /\ (pc = "errorSleep" =>
              /\ pc' = "loop"
              /\ UNCHANGED <<gitVars, targetVars>>) ]_vars

\* C14 witness: without --repeat and without a batch size, a second batch is
\* at its first commit, the second commit of a history every commit of which
\* can be translated: the first batch recorded the first commit and failed at
\* the second.
C14_Witness ==
    /\ ~options.repeat
    /\ ~options.stoponerror
    /\ options.change_batch_size = 0
    /\ failures = 1
    /\ \A k \in 1..Len(source) : RaisedBy(source[k]) = "none"
    /\ pc = "checkout"
    /\ idx = 1
    /\ counter = source[1].commitID
    /\ commitIDs[1] = source[2].commitID

\* A commit without parents that carries a file change whose status is not A,
\* M or D.
UnsupportedInitial(commit) ==
    /\ commit.parents = <<>>
    /\ \E i \in 1..Len(commit.fileChanges) :
          commit.fileChanges[i].changeTypes \notin {"A", "M", "D"}

\* C15: the translation of a commit without parents that carries a status
\* other than A, M, D ends with an exception, P4TLogicException unless a
\* command before the raise failed; no changelist exists for such a commit, the
\* driver is never past its staging, and the counter never names it.
C15_UnsupportedInitialAction ==
    [][ /\ \A k \in 1..Len(source) :
              UnsupportedInitial(source[k]) =>
                 /\ \A i \in 1..Len(changes) : changes[i] # source[k].commitID
                 /\ counter # source[k].commitID
                 /\ (pc \in {"staged", "submitted", "setCounter"} =>
                        commitIDs[idx] # source[k].commitID)
        /\ (pc = "replicate" /\ UnsupportedInitial(CommitOf(source, commitIDs[idx])) /\ pc' # pc =>
              /\ pc' = "except"
              /\ exc'.cls \in {"P4TLogicException", "P4Exception"}
              /\ UNCHANGED <<counter, changes, depot, filelog>>) ]_vars

\* C15 witness: replicateCommit has raised P4TLogicException for the first
\* commit of the history.
C15_Witness ==
    /\ pc = "except"
    /\ exc = Exc("P4TLogicException", "replicateCommit")
    /\ UnsupportedInitial(CommitOf(source, commitIDs[idx]))
    /\ counter = ""
    /\ changes = <<>>

\* C16: a commit whose file-change list is empty is translated without an
\* error of the translator's own (no step of an injected failure is meant):
\* its staging returns and leaves the target as it is, and with no file open
\* the driver goes on to setCounter without a changelist.
C16_EmptyCommitIsSkipped ==
    [][ /\ (/\ pc = "replicate"
            /\ CommitOf(source, commitIDs[idx]).fileChanges = <<>>
            /\ failures' = failures
            /\ pc' # pc) =>
                 pc' = "staged" /\ UNCHANGED targetVars
        /\ (/\ pc = "staged"
            /\ CommitOf(source, commitIDs[idx]).fileChanges = <<>>
            /\ opened = {}
            /\ pc' # pc) =>
                 pc' = "setCounter" /\ UNCHANGED targetVars ]_vars

\* The action the target records for a git status.
ActionOf(status) ==
    CASE status = "A" -> "add"
      [] status = "M" -> "edit"
      [] status = "D" -> "delete"
      [] OTHER -> "none"

\* The history a file has on the target when the first k commits of the
\* source have been replicated one changelist each.
RECURSIVE ExpectedLog(_, _)
ExpectedLog(k, f) ==
    IF k = 0 THEN <<>>
    ELSE LET fcs == SelectSeq(source[k].fileChanges, LAMBDA fc : fc.filename = f)
         IN ExpectedLog(k - 1, f) \o [i \in 1..Len(fcs) |-> ActionOf(fcs[i].changeTypes)]

\* C17: when replicate() has returned 0 with no failure injected, having
\* checked out k commits each of which changes a file by an add, an edit or a
\* delete, the target has exactly k changelists, the i-th for the i-th commit,
\* the counter names the k-th commit, nothing is left open, the depot holds
\* the files of the k-th commit's tree, and every file's history on the target
\* is its history in the source (add followed by delete for a file added and
\* later deleted).
C17_OneChangelistPerCommit ==
    LET k == Pos(checkedOut)
    IN (/\ pc = "exit"
        /\ result = 0
        /\ failures = 0
        /\ k >= 1
        /\ \A j \in 1..k :
              /\ source[j].fileChanges # <<>>
              /\ \A i \in 1..Len(source[j].fileChanges) :
                    source[j].fileChanges[i].changeTypes \in {"A", "M", "D"})
       => /\ changes = [j \in 1..k |-> source[j].commitID]
          /\ counter = source[k].commitID
          /\ opened = {}
          /\ depot = TreeAfter(source, k)
          /\ \A f \in Files : filelog[f] = ExpectedLog(k, f)

\* C17 witness: a run over three commits that add, edit and delete a file has
\* returned 0.
C17_Witness ==
    /\ pc = "exit"
    /\ result = 0
    /\ failures = 0
    /\ Len(changes) = 3
    /\ counter = source[3].commitID
    /\ filelog["file1"] = <<"add", "edit", "delete">>
    /\ depot = {}

\* ---------------------------------------------------------------------- C18
\* The fields the configuration documents for change_description_format,
\* with what each stands for; the repository is named by the git_repo setting.
RecognizedFields(c) ==
    [k \in {"$sourceDescription", "$sourceChange", "$sourceUser", "$sourceRepo"} |->
        CASE k = "$sourceDescription" -> c.description
          [] k = "$sourceChange" -> c.commitID
          [] k = "$sourceUser" -> c.name
          [] OTHER -> "git_repo"]

\* C18: the change description is the configured template with every
\* recognized field - $sourceDescription, $sourceChange, $sourceUser and
\* $sourceRepo - replaced by the commit's description, id, author name and
\* the source repository identifier, and only unrecognized $-names are left
\* as written.
C18_DescriptionSubstitutesFields ==
    description # <<>> =>
        /\ Len(description) = Len(change_description_format)
        /\ \A i \in DOMAIN change_description_format :
              LET piece == change_description_format[i]
              IN  /\ piece \in DOMAIN RecognizedFields(described) =>
                        description[i] = RecognizedFields(described)[piece]
                  /\ piece \in {"$other", "$sourcePort"} => description[i] = piece

\* ---------------------------------------------------------------------- C19
\* C19: a diff line that does not match the documented column grammar is a
\* hard parse error wherever diff lines are consumed: parseDiffTreeEntry
\* returns no record for it, and the loop of getFileChanges neither skips it
\* nor appends a record for it.
C19_MalformedLineIsParseError ==
    change.kind \in Defects =>
        /\ parsed # Unparsed => parsed.result # "dict"
        /\ scanned # Unscanned => scanned.result \notin {"continue", "append"}

\* ---------------------------------------------------------------------- C20
\* C20: for every valid single-parent diff line serialized from a FileChange,
\* parseDiffTreeEntry returns exactly the modes, hashes, status, score and
\* paths of the FileChange, with dst None exactly when the line carries one
\* path.
C20_ParseSerializeRoundTrip ==
    change.kind = "valid" /\ parsed # Unparsed =>
        /\ parsed.result = "dict"
        /\ [parsed.value EXCEPT
               !.src = Encode(@),
               !.dst = IF @ = None THEN None ELSE Some(Encode(@[1]))] = change.fc

\* ---------------------------------------------------------------------- C21
\* C21: if the history source yields no output at all, history extraction
\* fails with an error; it does not return an empty commit list.
C21_EmptyHistoryFails ==
    pipe = <<>> => hpc # "returned"

\* ---------------------------------------------------------------------- C22
\* C22: if the history-walk pipeline ends with a non-zero exit status,
\* extraction fails: getCommitDiffs does not return to the driver, so nothing
\* is caught or retried and no batch follows.
C22_PipelineFailureAborts ==
    exitStatus # 0 => hpc # "returned"

\* ---------------------------------------------------------------------- C23
\* C23: if the history stream ends before the description terminator of a
\* commit has been read, extraction terminates with a fatal error: the read
\* that finds the end of the stream inside a description raises, it neither
\* goes on reading nor records the commit.
C23_MissingTerminatorIsFatal ==
    [][hpc = "desc" /\ fpos >= Len(pipe) => hpc' = "raised"]_vars

\* C29: on a platform that is not Windows, decoding the encoding of a path
\* gives the path back, also for a path that holds %, %25, %2A, %23 or %40
\* as literal text.
C29_DecodeInvertsEncode ==
    wpc \in {"decoded", "done"} /\ ~isWindows => decodedPath = wildPath

\* C29 witness: the literal path %2A was encoded as %252A and decoded to %2A,
\* not to the star.
C29_Witness ==
    /\ wpc = "decoded"
    /\ ~isWindows
    /\ wildPath = <<"%", "2", "A">>
    /\ encodedPath = <<"%", "2", "5", "2", "A">>
    /\ decodedPath = wildPath

\* The position of a command in the order the specification documents: type
\* changes, adds, deletes with their reverts, copies, renames.  The plain edit
\* of a modified file or of the target of a copy has no place in it.
DocumentedRank(cmd) ==
    CASE cmd.op = "edit -t auto" -> 1
      [] cmd.op \in {"add", "add -f"} -> 2
      [] cmd.op \in {"revert", "delete"} -> 3
      [] cmd.op = "integrate -Dt" -> 4
      [] cmd.op \in {"edit -k", "move -k"} -> 5
      [] OTHER -> 0

\* The position of a command in the order of the code: the commands of the
\* scan, the type changes, the adds, the deletes with their reverts.
IssuedRank(cmd) ==
    CASE cmd.op = "edit -t auto" -> 1
      [] cmd.op \in {"add", "add -f"} -> 2
      [] cmd.op \in {"revert", "delete"} -> 3
      [] OTHER -> 0

\* Every delete directly follows the revert of its path, every move the
\* edit -k of its source.
DeleteAfterRevert ==
    \A j \in 1..Len(issued) :
        /\ issued[j].op = "delete" =>
              j > 1 /\ issued[j-1].op = "revert" /\ issued[j-1].file = issued[j].file
        /\ issued[j].op = "move -k" =>
              j > 1 /\ issued[j-1].op = "edit -k" /\ issued[j-1].file = issued[j].file

\* C24 as stated: the commands of a commit with a parent come in the order
\* type changes, adds, deletes (each after a revert of its path), copies,
\* renames (edit, then move).
C24_Original ==
    tpc = "opened" =>
        /\ DeleteAfterRevert
        /\ \A i \in 1..Len(issued) : \A j \in i..Len(issued) :
              DocumentedRank(issued[i]) # 0 /\ DocumentedRank(issued[j]) # 0
                 => DocumentedRank(issued[i]) <= DocumentedRank(issued[j])

\* C24: the commands of a commit with a parent come in this order: first,
\* entry by entry in the order of the diff, the edit of a modified file, the
\* integrate (and edit) of a copy and the edit and move of a rename; then the
\* type changes, then the adds, then the deletes, each delete after a revert
\* of its path.  It holds of the commands issued before an exception too.
C24_ScanThenTypesAddsDeletes ==
    tpc \in {"opened", "raised"} =>
        /\ DeleteAfterRevert
        /\ \A i \in 1..Len(issued) : \A j \in i..Len(issued) :
              /\ IssuedRank(issued[i]) <= IssuedRank(issued[j])
              /\ IssuedRank(issued[j]) = 0 =>
                    /\ 0 < issued[i].line
                    /\ issued[i].line <= issued[j].line
                    /\ diffTree[issued[j].line].status \in {"M", "C", "R"}
        /\ \A n \in 1..tpos :
              diffTree[n].status \in {"M", "C", "R"} =>
                 \E j \in 1..Len(issued) : issued[j].line = n

\* C24 witness: a rename and an added file; the edit and move of the rename
\* were issued before the add.
C24_Witness ==
    /\ tpc = "opened"
    /\ Len(issued) = 3
    /\ issued[1].op = "edit -k"
    /\ issued[2].op = "move -k"
    /\ issued[3].op \in {"add", "add -f"}

\* C25: two translations of the same commit from the same state of the
\* target issue the same commands in the same order.
C25_TranslationIsDeterministic ==
    tpc = "opened" /\ earlier # None => issued = earlier[1]

\* The paths the diff has both an A and a D entry of, and the status of the
\* last of those entries.
AddedAndDeleted ==
    {p \in TranslatePaths :
        /\ \E i \in 1..Len(diffTree) : diffTree[i].status = "A" /\ diffTree[i].src = p
        /\ \E i \in 1..Len(diffTree) : diffTree[i].status = "D" /\ diffTree[i].src = p}

LastAddOrDelete(p) ==
    LET hits == {i \in 1..Len(diffTree) :
                    diffTree[i].status \in {"A", "D"} /\ diffTree[i].src = p}
    IN  diffTree[CHOOSE i \in hits : \A j \in hits : j <= i].status

AddIssued(p) == \E j \in 1..Len(issued) : issued[j] = p4_add(p)
DeleteIssued(p) == \E j \in 1..Len(issued) : issued[j] = p4_delete(p)

Marked(fcs, st) == {fcs[i].filename : i \in {j \in 1..Len(fcs) : fcs[j].changeTypes = st}}

\* C27: for a commit whose captured list is empty or has the status MM, the
\* commands are computed from the list getFileChanges re-derived: the files
\* added and deleted on the target are those the list marks A and D.
C27_FallbackListIsTranslated ==
    tpc = "opened" /\ NeedsFallback(translated) =>
        /\ filesToAdd = Marked(fileChanges, "A")
        /\ filesToDelete = Marked(fileChanges, "D")

HasSubmittedChange(i) == "submittedChange" \in DOMAIN submitResult[i]

\* C28: the change id is that of the last entry of the result that has
\* submittedChange; the scan goes back one entry at a time and ends at the
\* latest before the first entry; a result without such an entry ends the
\* translation with an IndexError, no change id is returned and the counter
\* keeps the id of the parent.
C28_ChangeIdFromLastSubmitted ==
    /\ tpc = "confirm" => -scanAt <= Len(submitResult) + 1
    /\ tpc \in {"updateChange", "returned", "recorded"} /\ scanAt # 0 =>
          \E i \in 1..Len(submitResult) :
              /\ HasSubmittedChange(i)
              /\ newChangeId = submitResult[i].submittedChange
              /\ \A j \in (i+1)..Len(submitResult) : ~HasSubmittedChange(j)
    /\ scanAt # 0 /\ (\A i \in 1..Len(submitResult) : ~HasSubmittedChange(i)) =>
          /\ tpc \in {"confirm", "raised"}
          /\ newChangeId = 0
          /\ counter = IdPool[1]
    /\ tpc = "raised" /\ scanAt # 0 =>
          /\ exc = Exc("IndexError", "replicateCommit")
          /\ \A i \in 1..Len(submitResult) : ~HasSubmittedChange(i)

\* C28 witness: the result ends with an entry without submittedChange, the
\* id was taken from the entry before it, the later of two that have one.
C28_Witness ==
    /\ tpc = "recorded"
    /\ submitResult = <<[submittedChange |-> 7], [submittedChange |-> 8],
                        [change |-> 7, locked |-> 1]>>
    /\ newChangeId = 8
    /\ scanAt = -2

\* C30: before the submit, a file whose new executable state was recorded
\* (an added file, or a modified, copied or renamed one whose bit flipped)
\* is open on the target with that state.
C30_ExecBitApplied ==
    tpc = "opened" =>
        \A b \in filesToChangeExecBit :
            (b[1] \in filesToAdd \/ b[1] \notin filesToDelete) =>
               (b[1] \in executable) = isModeExec(b[2])

\* The commands the scan issued for line n of the diff.
IssuedFor(n) == SelectSeq(issued, LAMBDA c : c.line = n)

\* C31: for a Copied entry of a commit with a parent the source is
\* integrated to the destination, the destination is opened for edit exactly
\* when the content hashes or the executable bits of the two sides differ,
\* and the translation goes on without an exception.
C31_CopiedIsSupported ==
    \A n \in 1..tpos :
        diffTree[n].status = "C" =>
            /\ ~(tpc = "raised" /\ n = tpos)
            /\ IssuedFor(n)[1] = p4_integrate(diffTree[n].src, diffTree[n].dst, n)
            /\ (\E j \in 2..Len(IssuedFor(n)) :
                    IssuedFor(n)[j] = p4_edit(diffTree[n].dst, "", n))
               <=> \/ diffTree[n].src_sha1 # diffTree[n].dst_sha1
                   \/ isModeExecChanged(diffTree[n].src_mode, diffTree[n].dst_mode)

\* Line n of the diff is the only one that names its paths.
Isolated(n) ==
    \A m \in (1..Len(diffTree)) \ {n} :
        {diffTree[m].src, diffTree[m].dst} \cap {diffTree[n].src, diffTree[n].dst} = {}

\* C32: for a Renamed entry the source is opened with edit -k and then moved
\* to the destination, in that order; where no other entry names the two
\* paths, neither is staged for add or delete and none of add, delete or
\* revert is issued for them, and the target has the source open as
\* move/delete and the destination as move/add.
C32_RenameIsEditThenMove ==
    \A n \in 1..tpos :
        diffTree[n].status = "R" =>
            LET src == diffTree[n].src
                dst == diffTree[n].dst
            IN  /\ IssuedFor(n) = <<p4_edit(src, "-k", n), p4_move(src, dst, n)>>
                /\ Isolated(n) /\ tpc = "opened" =>
                      /\ {src, dst} \cap (filesToAdd \cup filesToDelete) = {}
                      /\ \A j \in 1..Len(issued) :
                            issued[j].line = 0 =>
                               issued[j].file \notin {src, dst, wildcard_encode(src),
                                                      wildcard_encode(dst)}
                      /\ <<wildcard_encode(src), "move/delete">> \in TargetActions(issued)
                      /\ <<wildcard_encode(dst), "move/add">> \in TargetActions(issued)

\* C32 witness: the commit renames a to #; both commands were issued and the
\* two paths are open as move/delete and move/add.
C32_Witness ==
    /\ tpc = "opened"
    /\ Len(diffTree) = 1
    /\ diffTree[1].status = "R"
    /\ diffTree[1].src = <<"a">>
    /\ issued = <<p4_edit(<<"a">>, "-k", 1), p4_move(<<"a">>, <<"#">>, 1)>>
    /\ TargetActions(issued) = {<<<<"a">>, "move/delete">>, <<<<"%", "2", "3">>, "move/add">>}

\* C33: getCommitDiffs, given the whole output of the pipeline for a
\* history, returns every commit of the stream exactly once and in the
\* order of the stream, each with its own parents and with exactly the
\* file-change lines that follow its header; a commit that no change line
\* follows, at the end of the input or right before the next header, is in
\* the list with an empty list of changes.
C33_EveryCommitOnceInOrder ==
    \A h \in Logs(MaxLogged) :
        hpc = "returned" /\ pipe = StreamOf(h) =>
            /\ Len(commits) = Len(h)
            /\ \A i \in 1..Len(h) :
                  /\ commits[i].commitID = h[i].commitID
                  /\ commits[i].parents = h[i].parents
                  /\ commits[i].fileChanges = h[i].fileChanges

\* C33 witness: two commits were returned, the first with no change line
\* before the header of the second, the second with two change lines.
C33_Witness ==
    /\ hpc = "returned"
    /\ Len(commits) = 2
    /\ commits[1].commitID = IdPool[1]
    /\ commits[1].fileChanges = <<>>
    /\ commits[2].parents = <<IdPool[1]>>
    /\ commits[2].fileChanges = <<":A file1", ":M file1">>
    /\ fpos = Len(pipe)

\* The names of the configured branches
ConfiguredNames == {<<branchRefs[i]>> : i \in 1..Len(branchRefs)}

\* The commits on the first-parent line of a configured branch
OnConfigured == UNION {OnLineOf(branchRefs[i]) : i \in 1..Len(branchRefs)}

\* The commits updateBranchInfo is given
Listed == {BranchCommitList[i] : i \in 1..Len(BranchCommitList)}

\* C34: after updateBranchInfo every commit on the first-parent line of a
\* configured branch carries the name of a configured branch, and not a
\* synthetic one, whatever the labels of its parents.
C34_ConfiguredBranchesWin ==
    bpc = "returned" =>
        \A c \in OnConfigured :
            /\ branchInfo[c].branch \in ConfiguredNames
            /\ ~anonymousBranch(branchInfo[c].branch)
            /\ \E i \in 1..Len(branchRefs) :
                  c \in OnLineOf(branchRefs[i]) /\ branchInfo[c].branch = <<branchRefs[i]>>

\* C34 witness: two branches are configured, a commit on the lines of both
\* carries the name of the one configured last, and a commit off both lines
\* carries a synthetic name.
C34_Witness ==
    /\ bpc = "returned"
    /\ branchRefs = <<"main", "dev">>
    /\ \E c \in OnLineOf("main") \cap OnLineOf("dev") : branchInfo[c].branch = <<"dev">>
    /\ \E c \in OnLineOf("main") \ OnLineOf("dev") : branchInfo[c].branch = <<"main">>
    /\ \E c \in Listed \ OnConfigured : anonymousBranch(branchInfo[c].branch)

\* C35: once updateBranchInfo is over, a commit of the list that is on no
\* configured branch carries the label of its first parent, with
\* firstOnBranch false, if that label is synthetic; otherwise it carries a
\* synthetic name minted from the counter that no other commit is the first
\* to carry, its parentBranch is the branch of its first parent and
\* firstOnBranch is true.
C35_AnonymousLabels ==
    bpc \in {"returned", "raised"} =>
        \A c \in Listed \ OnConfigured :
            IF firstParents[c] # 0 /\ anonymousBranch(branchInfo[firstParents[c]].branch)
            THEN /\ branchInfo[c].branch = branchInfo[firstParents[c]].branch
                 /\ ~branchInfo[c].firstOnBranch
            ELSE /\ \E n \in 1..anonBranchInd : branchInfo[c].branch = AnonBranch(n)
                 /\ \A d \in Listed \ {c} :
                       branchInfo[d].firstOnBranch =>
                           branchInfo[d].branch # branchInfo[c].branch
                 /\ firstParents[c] # 0
                 /\ branchInfo[c].parentBranch = branchInfo[firstParents[c]].branch
                 /\ branchInfo[c].firstOnBranch

\* C36: when the translation of a commit starts no file is open in the
\* target workspace; a translated commit leaves no file open, having opened
\* none or submitted all; and the files of a changelist about to be
\* submitted were all opened for the commit being translated.
C36_NoFileOpenWhenTranslationStarts ==
    /\ pc = "replicate" => opened = {}
    /\ pc = "setCounter" => opened = {}
    /\ pc \in {"replicate", "staged"} => \A r \in opened : r.commit = commitIDs[idx]

\* C37: during and after the scan of the diff of a commit with a parent, no
\* path is staged both for add and for delete, whatever the order and the
\* number of the A and D lines of the diff.
C37_AddAndDeleteDisjoint ==
    tpc \notin {"idle", "sync"} => filesToAdd \cap filesToDelete = {}

\* C37 witness: the diff adds a path and then deletes it; after the scan the
\* path is staged for delete only.
C37_Witness ==
    /\ tpc = "types"
    /\ tpos = 2
    /\ Len(diffTree) = 2
    /\ diffTree[1].status = "A"
    /\ diffTree[2].status = "D"
    /\ diffTree[1].src = diffTree[2].src
    /\ filesToAdd = {}
    /\ filesToDelete = {diffTree[2].src}

\* Values of the counter that name no commit: unset, 0, an id of another
\* history.
UnknownCursors == {"", "0", "deadbeef"}

\* C38: a batch that finds a counter naming no commit of the extracted
\* history (the empty value of an unset counter included) takes the whole
\* history as its list, cut only to the batch size, and the first commit it
\* applies is the first commit of the history, whether or not the target
\* holds a changelist of it already.
C38_UnknownCursorStartsFromFirstCommit ==
    [][ /\ (pc = "loop" /\ pc' \in {"revert", "afterBatch"} /\ Pos(counter) = 0 =>
              commitIDs' = Truncate(CommitList(source),
                                    MaxChanges(options.change_batch_size, options.maximum)))
        /\ \A ctr \in UnknownCursors :
              MissingCommits(source, ctr, options) =
                 Truncate(CommitList(source),
                          MaxChanges(options.change_batch_size, options.maximum))
        /\ (pc = "for" /\ pc' = "checkout" /\ Pos(counter) = 0 =>
              /\ idx = 1
              /\ commitIDs[idx] = source[1].commitID) ]_vars

\* C38 witness: the counter is unset although the target holds a changelist
\* of the first commit, and the batch is about to apply that commit again.
C38_Witness ==
    /\ pc = "checkout"
    /\ idx = 1
    /\ counter = ""
    /\ changes # <<>>
    /\ changes[1] = source[1].commitID
    /\ commitIDs[1] = source[1].commitID

\* The driver sleeps on an error that every attempt will meet again: the
\* commit after the counter is one whose translation raises by itself, and
\* neither --stoponerror, --notransfer nor --end-datetime is set.
PersistentError ==
    /\ pc = "errorSleep"
    /\ ~options.stoponerror
    /\ ~options.notransfer
    /\ ~options.end_datetime
    /\ Pos(counter) < Len(source)
    /\ RaisedBy(source[Pos(counter) + 1]) # "none"

====
